---- MODULE Spec2Model ----
(***************************************************************************)
(* Zenlink asset ledger (zenlink/assets) and Uniswap-V1 style swap engine  *)
(* (zenlink/dex) as a state machine over the pallets' storage.             *)
(*                                                                         *)
(* Every dispatchable is one action.  The pallets are declared with        *)
(* decl_module! and carry no transactional attribute (dex/src/lib.rs:138   *)
(* still reads "TODO: transaction"), so a dispatchable that returns Err    *)
(* keeps the storage writes it made before the failing statement.  Each    *)
(* handler is therefore an operator from a storage record to a result      *)
(* [s |-> storage after the call, res |-> "Ok" or the error], built by     *)
(* threading the storage through the statements in source order.           *)
(***************************************************************************)
EXTENDS Integers, Sequences, FiniteSets, TLC

VARIABLES
    AssetInfos,       \* assets: AssetId -> Option<AssetInfo>
    Balances,         \* assets: (AssetId, AccountId) -> Balance, absent = 0
    NextAssetId,      \* assets: next asset identifier
    TotalSupply,      \* assets: AssetId -> Balance, absent = 0
    Allowances,       \* assets: (AssetId, owner, spender) -> Balance
    TokenToExchange,  \* dex: AssetId -> Option<ExchangeId>
    Exchanges,        \* dex: ExchangeId -> Option<Exchange>
    NextExchangeId,   \* dex: next exchange identifier
    FreeBalance,      \* T::Currency free balance of every account
    Events,           \* events deposited by the last dispatched call
    now,              \* frame_system block number
    calls,            \* number of calls dispatched so far
    overflow_checks,  \* build profile: TRUE = arithmetic overflow panics
    last              \* the last dispatched call, its arguments and result

vars == <<AssetInfos, Balances, NextAssetId, TotalSupply, Allowances,
          TokenToExchange, Exchanges, NextExchangeId, FreeBalance, Events,
          now, calls, overflow_checks, last>>

---------------------------------------------------------------------------
(* Bounds of the model *)

\* asset ids 0 .. MaxAssets-1 can be assigned
MaxAssets == 4
\* exchange ids 0 .. MaxExchanges-1 can be assigned
MaxExchanges == 2
\* amounts passed to the dispatchables range over 0 .. MaxAmount
MaxAmount == 2
\* total of a user-issued asset
IssueTotal == 4
\* calls dispatched in one behaviour
MaxCalls == 3
\* liquidity round trips: total of the issued asset, endowment of the users,
\* largest currency amount provided
RoundTripTotal == 12
RoundTripEndowment == 10
RoundTripAmount == 7
\* pricing quotes: amounts and reserves range over 0 .. MaxReserve
MaxReserve == 8

\* existential deposit of the currency module
ExistentialDeposit == 1
\* free currency balance every user is endowed with at genesis
Endowment == 3
\* u64::MAX, the bound of saturated_into::<u64>(), at the top of the modelled range
SaturationBound == 2147483647

Users == {1, 2}
AssetIds == 0 .. (MaxAssets - 1)
ExchangeIds == 0 .. (MaxExchanges - 1)
Amounts == 0 .. MaxAmount
IssueTotals == {0, IssueTotal}

\* RawOrigin: None is the empty tuple, Signed(who) a one-element tuple
RawNone == << >>
Signed(who) == <<who>>
Origins == {RawNone} \cup {Signed(u) : u \in Users}

\* T::ModuleId::get().into_sub_account(exchange_id): an injective derivation
\* into accounts no user key controls
into_sub_account(exchange_id) == 10 + exchange_id

Accounts == Users \cup {into_sub_account(e) : e \in ExchangeIds}

\* AssetInfo values: metadata of user tokens, and the ZLK constant
TEST_TOKEN == "zenlinktesttoken"
ZLK == "liquidity_zlk_v1"

---------------------------------------------------------------------------
(* Storage record and results *)

Storage ==
    [AssetInfos |-> AssetInfos, Balances |-> Balances, NextAssetId |-> NextAssetId,
     TotalSupply |-> TotalSupply, Allowances |-> Allowances,
     TokenToExchange |-> TokenToExchange, Exchanges |-> Exchanges,
     NextExchangeId |-> NextExchangeId, FreeBalance |-> FreeBalance,
     Events |-> << >>]

Ok(s) == [s |-> s, res |-> "Ok"]
Err(s, e) == [s |-> s, res |-> e]

\* the `?` operator: continue with the storage of an Ok result, else return it
AndThen(r, F(_)) == IF r.res = "Ok" THEN F(r.s) ELSE r

\* storage map insert on an Option-valued map
Insert(f, k, v) == [x \in (DOMAIN f) \cup {k} |-> IF x = k THEN v ELSE f[x]]

deposit_event(s, e) == [s EXCEPT !.Events = Append(@, e)]

---------------------------------------------------------------------------
(* zenlink/assets *)

balance(s, id, who) == s.Balances[<<id, who>>]
total_supply(s, id) == s.TotalSupply[id]
allowances(s, id, owner, spender) == s.Allowances[<<id, owner, spender>>]
asset_info(s, id) == IF id \in DOMAIN s.AssetInfos THEN {s.AssetInfos[id]} ELSE {}

\* issue recording a total supply one above the amount it credits
issue_supply_off(s, origin, total, info) ==
    IF origin = RawNone THEN Err(s, "BadOrigin")
    ELSE
    LET who == origin[1]
        id == s.NextAssetId
        s1 == [s EXCEPT !.NextAssetId = @ + 1]
        s2 == [s1 EXCEPT !.Balances[<<id, who>>] = total]
        s3 == [s2 EXCEPT !.TotalSupply[id] = total + 1]
        s4 == [s3 EXCEPT !.AssetInfos = Insert(@, id, info)]
    IN Ok(deposit_event(s4, <<"Issued", id, who, total>>))

\* issue leaving next_asset_id where it was
issue_reuses_id(s, origin, total, info) ==
    IF origin = RawNone THEN Err(s, "BadOrigin")
    ELSE
    LET who == origin[1]
        id == s.NextAssetId
        s2 == [s EXCEPT !.Balances[<<id, who>>] = total]
        s3 == [s2 EXCEPT !.TotalSupply[id] = total]
        s4 == [s3 EXCEPT !.AssetInfos = Insert(@, id, info)]
    IN Ok(deposit_event(s4, <<"Issued", id, who, total>>))

issue(s, origin, total, info) ==
    IF origin = RawNone THEN Err(s, "BadOrigin")
    ELSE
    LET who == origin[1]
        id == s.NextAssetId
        s1 == [s EXCEPT !.NextAssetId = @ + 1]
        s2 == [s1 EXCEPT !.Balances[<<id, who>>] = total]
        s3 == [s2 EXCEPT !.TotalSupply[id] = total]
        s4 == [s3 EXCEPT !.AssetInfos = Insert(@, id, info)]
    IN Ok(deposit_event(s4, <<"Issued", id, who, total>>))

\* transfer crediting the target without debiting the caller
transfer_no_debit(s, origin, id, target, amount) ==
    IF origin = RawNone THEN Err(s, "BadOrigin")
    ELSE
    LET who == origin[1]
        origin_account == <<id, who>>
        origin_balance == s.Balances[origin_account]
    IN  IF amount = 0 THEN Err(s, "AmountZero")
        ELSE IF ~(origin_balance >= amount) THEN Err(s, "BalanceLow")
        ELSE
        LET s1 == deposit_event(s, <<"Transferred", id, who, target, amount>>)
            s3 == [s1 EXCEPT !.Balances[<<id, target>>] = @ + amount]
        IN Ok(s3)

\* transfer without the AmountZero check
transfer_zero_allowed(s, origin, id, target, amount) ==
    IF origin = RawNone THEN Err(s, "BadOrigin")
    ELSE
    LET who == origin[1]
        origin_account == <<id, who>>
        origin_balance == s.Balances[origin_account]
    IN  IF ~(origin_balance >= amount) THEN Err(s, "BalanceLow")
        ELSE
        LET s1 == deposit_event(s, <<"Transferred", id, who, target, amount>>)
            s2 == [s1 EXCEPT !.Balances[origin_account] = origin_balance - amount]
            s3 == [s2 EXCEPT !.Balances[<<id, target>>] = @ + amount]
        IN Ok(s3)

\* transfer crediting the target from the balance read before the debit
transfer_credits_stale(s, origin, id, target, amount) ==
    IF origin = RawNone THEN Err(s, "BadOrigin")
    ELSE
    LET who == origin[1]
        origin_account == <<id, who>>
        origin_balance == s.Balances[origin_account]
        target_balance == s.Balances[<<id, target>>]
    IN  IF amount = 0 THEN Err(s, "AmountZero")
        ELSE IF ~(origin_balance >= amount) THEN Err(s, "BalanceLow")
        ELSE
        LET s1 == deposit_event(s, <<"Transferred", id, who, target, amount>>)
            s2 == [s1 EXCEPT !.Balances[origin_account] = origin_balance - amount]
            s3 == [s2 EXCEPT !.Balances[<<id, target>>] = target_balance + amount]
        IN Ok(s3)

transfer(s, origin, id, target, amount) ==
    IF origin = RawNone THEN Err(s, "BadOrigin")
    ELSE
    LET who == origin[1]
        origin_account == <<id, who>>
        origin_balance == s.Balances[origin_account]
    IN  IF amount = 0 THEN Err(s, "AmountZero")
        ELSE IF ~(origin_balance >= amount) THEN Err(s, "BalanceLow")
        ELSE
        LET s1 == deposit_event(s, <<"Transferred", id, who, target, amount>>)
            s2 == [s1 EXCEPT !.Balances[origin_account] = origin_balance - amount]
            s3 == [s2 EXCEPT !.Balances[<<id, target>>] = @ + amount]
        IN Ok(s3)

\* allow adding to the allowance instead of overwriting it
allow_accumulates(s, origin, id, spender, amount) ==
    IF origin = RawNone THEN Err(s, "BadOrigin")
    ELSE
    LET owner == origin[1]
        s1 == deposit_event(s, <<"Approval", id, owner, spender, amount>>)
    IN Ok([s1 EXCEPT !.Allowances[<<id, owner, spender>>] = @ + amount])

allow(s, origin, id, spender, amount) ==
    IF origin = RawNone THEN Err(s, "BadOrigin")
    ELSE
    LET owner == origin[1]
        s1 == deposit_event(s, <<"Approval", id, owner, spender, amount>>)
    IN Ok([s1 EXCEPT !.Allowances[<<id, owner, spender>>] = amount])

\* transfer_from leaving the allowance as it was
transfer_from_keeps_allowance(s, origin, id, from, target, amount) ==
    IF origin = RawNone THEN Err(s, "BadOrigin")
    ELSE
    LET spender == origin[1]
        owner == from
        allowance == s.Allowances[<<id, owner, spender>>]
    IN  IF ~(allowance >= amount) THEN Err(s, "AllowanceLow")
        ELSE transfer(s, Signed(owner), id, target, amount)

transfer_from(s, origin, id, from, target, amount) ==
    IF origin = RawNone THEN Err(s, "BadOrigin")
    ELSE
    LET spender == origin[1]
        owner == from
        allowance == s.Allowances[<<id, owner, spender>>]
    IN  IF ~(allowance >= amount) THEN Err(s, "AllowanceLow")
        ELSE
        LET s1 == [s EXCEPT !.Allowances[<<id, owner, spender>>] = allowance - amount]
        IN transfer(s1, Signed(owner), id, target, amount)

\* Internal interface the swap engine calls; its definitions are not part of
\* the ledger source at hand and follow the specification: mint_asset is
\* "like issue" for an arbitrary issuer, transfer_inner / transfer_from_inner
\* have the semantics of the public operations without an origin signature.
inner_issue(s, account, total, info) == issue(s, Signed(account), total, info).s

inner_transfer(s, id, from, to, amount) == transfer(s, Signed(from), id, to, amount)

inner_transfer_from(s, id, owner, spender, to, amount) ==
    transfer_from(s, Signed(spender), id, owner, to, amount)

inner_mint(s, id, to, amount) ==
    Ok([s EXCEPT !.Balances[<<id, to>>] = @ + amount, !.TotalSupply[id] = @ + amount])

inner_burn(s, id, from, amount) ==
    IF s.Balances[<<id, from>>] < amount THEN Err(s, "BalanceLow")
    ELSE Ok([s EXCEPT !.Balances[<<id, from>>] = @ - amount, !.TotalSupply[id] = @ - amount])

balance_of(s, id, who) == s.Balances[<<id, who>>]

---------------------------------------------------------------------------
(* T::Currency, the native currency capability of the host *)

free_balance(s, who) == s.FreeBalance[who]

\* transfer(from, to, value, existence_requirement); keep_alive = TRUE is
\* ExistenceRequirement::KeepAlive, FALSE is AllowDeath.  A zero value or a
\* transfer to oneself succeeds without effect; an account left below the
\* existential deposit under AllowDeath is reaped.
Currency_transfer(s, from, to, value, keep_alive) ==
    IF value = 0 \/ from = to THEN Ok(s)
    ELSE IF s.FreeBalance[from] < value THEN Err(s, "InsufficientBalance")
    ELSE IF s.FreeBalance[to] + value < ExistentialDeposit THEN Err(s, "ExistentialDeposit")
    ELSE IF keep_alive /\ s.FreeBalance[from] - value < ExistentialDeposit THEN Err(s, "KeepAlive")
    ELSE
    LET left == s.FreeBalance[from] - value
        kept == IF left < ExistentialDeposit THEN 0 ELSE left
    IN Ok([s EXCEPT !.FreeBalance[from] = kept, !.FreeBalance[to] = @ + value])

---------------------------------------------------------------------------
(* zenlink/dex: helpers and pricing *)

\* the pre-call storage with a panic result: a panicking extrinsic is
\* discarded by the host together with everything it wrote
Panic(s) == Err(s, "Panic")

convert(balance_of_) == IF balance_of_ > SaturationBound THEN SaturationBound ELSE balance_of_

unconvert(token_balance) == IF token_balance > SaturationBound THEN SaturationBound ELSE token_balance

get_token_reserve(s, exchange) == balance_of(s, exchange.token_id, exchange.account)

get_currency_reserve(s, exchange) == free_balance(s, exchange.account)

\* numerator / denominator panics on a zero denominator in every build
get_input_price_panics(input_amount, input_reserve, output_reserve) ==
    (input_reserve * 1000) + (input_amount * 997) = 0

\* get_input_price charging no fee
get_input_price_no_fee(input_amount, input_reserve, output_reserve) ==
    LET input_amount_with_fee == input_amount * 1000
        numerator == input_amount_with_fee * output_reserve
        denominator == (input_reserve * 1000) + input_amount_with_fee
    IN numerator \div denominator

get_input_price(input_amount, input_reserve, output_reserve) ==
    LET input_amount_with_fee == input_amount * 997
        numerator == input_amount_with_fee * output_reserve
        denominator == (input_reserve * 1000) + input_amount_with_fee
    IN numerator \div denominator

\* output_reserve - output_amount underflows when output_amount exceeds the
\* reserve: a panic with overflow checks, a wrap-around without them; a zero
\* denominator panics in every build
get_output_price_panics(output_amount, input_reserve, output_reserve, checks) ==
    \/ output_amount = output_reserve
    \/ output_amount > output_reserve /\ checks

\* get_output_price charging no fee
get_output_price_no_fee(output_amount, input_reserve, output_reserve) ==
    LET numerator == input_reserve * output_amount * 1000
    IN  IF output_amount > output_reserve THEN 0 + 1
        ELSE LET denominator == (output_reserve - output_amount) * 1000
             IN (numerator \div denominator) + 1

\* get_output_price without the final + 1
get_output_price_floor(output_amount, input_reserve, output_reserve) ==
    LET numerator == input_reserve * output_amount * 1000
    IN  IF output_amount > output_reserve THEN 0
        ELSE LET denominator == (output_reserve - output_amount) * 997
             IN numerator \div denominator

\* Without overflow checks and with output_amount = output_reserve + k, k > 0,
\* the denominator is (2^w - k) * 997 mod 2^w = 2^w - 997 * k, which exceeds
\* the numerator for every w >= 32 and every amount of the model, so the
\* quotient is 0 and the function returns 1.
get_output_price(output_amount, input_reserve, output_reserve) ==
    LET numerator == input_reserve * output_amount * 1000
    IN  IF output_amount > output_reserve THEN 0 + 1
        ELSE LET denominator == (output_reserve - output_amount) * 997
             IN (numerator \div denominator) + 1

---------------------------------------------------------------------------
(* zenlink/dex: dispatchables *)

\* create_exchange without the ExchangeAlreadyExists check
create_exchange_twice(s, origin, token_id) ==
    IF asset_info(s, token_id) = {} THEN Err(s, "TokenNotExists")
    ELSE
    LET exchange_id == s.NextExchangeId
        next_id == exchange_id + 1
        account == into_sub_account(exchange_id)
        liquidity_id == s.NextAssetId
        s1 == inner_issue(s, account, 0, ZLK)
        new_exchange == [token_id |-> token_id, liquidity_id |-> liquidity_id,
                         account |-> account]
        s2 == [s1 EXCEPT !.TokenToExchange = Insert(@, token_id, exchange_id)]
        s3 == [s2 EXCEPT !.Exchanges = Insert(@, exchange_id, new_exchange)]
        s4 == [s3 EXCEPT !.NextExchangeId = next_id]
    IN Ok(deposit_event(s4, <<"ExchangeCreated", exchange_id, account>>))

\* create_exchange leaving token_to_exchange as it was
create_exchange_unmapped(s, origin, token_id) ==
    IF asset_info(s, token_id) = {} THEN Err(s, "TokenNotExists")
    ELSE IF token_id \in DOMAIN s.TokenToExchange THEN Err(s, "ExchangeAlreadyExists")
    ELSE
    LET exchange_id == s.NextExchangeId
        next_id == exchange_id + 1
        account == into_sub_account(exchange_id)
        liquidity_id == s.NextAssetId
        s1 == inner_issue(s, account, 0, ZLK)
        new_exchange == [token_id |-> token_id, liquidity_id |-> liquidity_id,
                         account |-> account]
        s3 == [s1 EXCEPT !.Exchanges = Insert(@, exchange_id, new_exchange)]
        s4 == [s3 EXCEPT !.NextExchangeId = next_id]
    IN Ok(deposit_event(s4, <<"ExchangeCreated", exchange_id, account>>))

\* create_exchange leaving next_exchange_id where it was
create_exchange_keeps_id(s, origin, token_id) ==
    IF asset_info(s, token_id) = {} THEN Err(s, "TokenNotExists")
    ELSE IF token_id \in DOMAIN s.TokenToExchange THEN Err(s, "ExchangeAlreadyExists")
    ELSE
    LET exchange_id == s.NextExchangeId
        account == into_sub_account(exchange_id)
        liquidity_id == s.NextAssetId
        s1 == inner_issue(s, account, 0, ZLK)
        new_exchange == [token_id |-> token_id, liquidity_id |-> liquidity_id,
                         account |-> account]
        s2 == [s1 EXCEPT !.TokenToExchange = Insert(@, token_id, exchange_id)]
        s3 == [s2 EXCEPT !.Exchanges = Insert(@, exchange_id, new_exchange)]
    IN Ok(deposit_event(s3, <<"ExchangeCreated", exchange_id, account>>))

\* create_exchange taking the token itself as the liquidity asset
create_exchange_on_token(s, origin, token_id) ==
    IF asset_info(s, token_id) = {} THEN Err(s, "TokenNotExists")
    ELSE IF token_id \in DOMAIN s.TokenToExchange THEN Err(s, "ExchangeAlreadyExists")
    ELSE
    LET exchange_id == s.NextExchangeId
        next_id == exchange_id + 1
        account == into_sub_account(exchange_id)
        liquidity_id == token_id
        new_exchange == [token_id |-> token_id, liquidity_id |-> liquidity_id,
                         account |-> account]
        s2 == [s EXCEPT !.TokenToExchange = Insert(@, token_id, exchange_id)]
        s3 == [s2 EXCEPT !.Exchanges = Insert(@, exchange_id, new_exchange)]
        s4 == [s3 EXCEPT !.NextExchangeId = next_id]
    IN Ok(deposit_event(s4, <<"ExchangeCreated", exchange_id, account>>))

create_exchange(s, origin, token_id) ==
    IF asset_info(s, token_id) = {} THEN Err(s, "TokenNotExists")
    ELSE IF token_id \in DOMAIN s.TokenToExchange THEN Err(s, "ExchangeAlreadyExists")
    ELSE
    LET exchange_id == s.NextExchangeId
        next_id == exchange_id + 1
        account == into_sub_account(exchange_id)
        liquidity_id == s.NextAssetId
        s1 == inner_issue(s, account, 0, ZLK)
        new_exchange == [token_id |-> token_id, liquidity_id |-> liquidity_id,
                         account |-> account]
        s2 == [s1 EXCEPT !.TokenToExchange = Insert(@, token_id, exchange_id)]
        s3 == [s2 EXCEPT !.Exchanges = Insert(@, exchange_id, new_exchange)]
        s4 == [s3 EXCEPT !.NextExchangeId = next_id]
    IN Ok(deposit_event(s4, <<"ExchangeCreated", exchange_id, account>>))

\* add_liquidity holding a first provision to min_liquidity
add_liquidity_checks_first(s, n, origin, exchange_id, currency_amount, min_liquidity, max_tokens, deadline) ==
    IF ~(deadline > n) THEN Err(s, "Deadline")
    ELSE IF origin = RawNone THEN Err(s, "BadOrigin")
    ELSE IF ~(max_tokens > 0) THEN Err(s, "ZeroTokens")
    ELSE IF ~(currency_amount > 0) THEN Err(s, "ZeroCurrency")
    ELSE IF exchange_id \notin DOMAIN s.Exchanges THEN Err(s, "ExchangeNotExists")
    ELSE
    LET who == origin[1]
        exchange == s.Exchanges[exchange_id]
        total_liquidity == total_supply(s, exchange.liquidity_id)
    IN  IF total_liquidity > 0 THEN
            IF ~(min_liquidity > 0) THEN Err(s, "RequestedZeroLiquidity")
            ELSE
            LET currency_reserve == convert(get_currency_reserve(s, exchange))
                token_reserve == get_token_reserve(s, exchange)
            IN  IF currency_reserve = 0 THEN Panic(s)
                ELSE
                LET token_amount == (convert(currency_amount) * token_reserve) \div currency_reserve
                    liquidity_minted == (convert(currency_amount) * total_liquidity) \div currency_reserve
                IN  IF ~(max_tokens >= token_amount) THEN Err(s, "TooManyTokens")
                    ELSE IF ~(liquidity_minted >= min_liquidity) THEN Err(s, "TooLowLiquidity")
                    ELSE
                    AndThen(Currency_transfer(s, who, exchange.account, currency_amount, TRUE), LAMBDA s1 :
                    AndThen(inner_mint(s1, exchange.liquidity_id, who, liquidity_minted), LAMBDA s2 :
                    AndThen(inner_transfer_from(s2, exchange.token_id, who, exchange.account, exchange.account, token_amount), LAMBDA s3 :
                    Ok(deposit_event(s3, <<"LiquidityAdded", exchange_id, who, currency_amount, token_amount>>)))))
        ELSE
            LET token_amount == max_tokens
            IN  AndThen(Currency_transfer(s, who, exchange.account, currency_amount, TRUE), LAMBDA s1 :
                LET initial_liquidity == convert(free_balance(s1, exchange.account))
                IN  IF ~(initial_liquidity >= min_liquidity) THEN Err(s, "TooLowLiquidity") ELSE
                    AndThen(inner_mint(s1, exchange.liquidity_id, who, initial_liquidity), LAMBDA s2 :
                    AndThen(inner_transfer_from(s2, exchange.token_id, who, exchange.account, exchange.account, token_amount), LAMBDA s3 :
                    Ok(deposit_event(s3, <<"LiquidityAdded", exchange_id, who, currency_amount, token_amount>>)))))

\* add_liquidity minting in proportion to the token reserve
add_liquidity_mints_tokens(s, n, origin, exchange_id, currency_amount, min_liquidity, max_tokens, deadline) ==
    IF ~(deadline > n) THEN Err(s, "Deadline")
    ELSE IF origin = RawNone THEN Err(s, "BadOrigin")
    ELSE IF ~(max_tokens > 0) THEN Err(s, "ZeroTokens")
    ELSE IF ~(currency_amount > 0) THEN Err(s, "ZeroCurrency")
    ELSE IF exchange_id \notin DOMAIN s.Exchanges THEN Err(s, "ExchangeNotExists")
    ELSE
    LET who == origin[1]
        exchange == s.Exchanges[exchange_id]
        total_liquidity == total_supply(s, exchange.liquidity_id)
    IN  IF total_liquidity > 0 THEN
            IF ~(min_liquidity > 0) THEN Err(s, "RequestedZeroLiquidity")
            ELSE
            LET currency_reserve == convert(get_currency_reserve(s, exchange))
                token_reserve == get_token_reserve(s, exchange)
            IN  IF currency_reserve = 0 THEN Panic(s)
                ELSE
                LET token_amount == (convert(currency_amount) * token_reserve) \div currency_reserve
                    liquidity_minted == (convert(currency_amount) * token_reserve) \div currency_reserve
                IN  IF ~(max_tokens >= token_amount) THEN Err(s, "TooManyTokens")
                    ELSE IF ~(liquidity_minted >= min_liquidity) THEN Err(s, "TooLowLiquidity")
                    ELSE
                    AndThen(Currency_transfer(s, who, exchange.account, currency_amount, TRUE), LAMBDA s1 :
                    AndThen(inner_mint(s1, exchange.liquidity_id, who, liquidity_minted), LAMBDA s2 :
                    AndThen(inner_transfer_from(s2, exchange.token_id, who, exchange.account, exchange.account, token_amount), LAMBDA s3 :
                    Ok(deposit_event(s3, <<"LiquidityAdded", exchange_id, who, currency_amount, token_amount>>)))))
        ELSE
            LET token_amount == max_tokens
            IN  AndThen(Currency_transfer(s, who, exchange.account, currency_amount, TRUE), LAMBDA s1 :
                LET initial_liquidity == convert(free_balance(s1, exchange.account))
                IN  AndThen(inner_mint(s1, exchange.liquidity_id, who, initial_liquidity), LAMBDA s2 :
                    AndThen(inner_transfer_from(s2, exchange.token_id, who, exchange.account, exchange.account, token_amount), LAMBDA s3 :
                    Ok(deposit_event(s3, <<"LiquidityAdded", exchange_id, who, currency_amount, token_amount>>)))))

\* add_liquidity refusing a mint equal to min_liquidity
add_liquidity_strict(s, n, origin, exchange_id, currency_amount, min_liquidity, max_tokens, deadline) ==
    IF ~(deadline > n) THEN Err(s, "Deadline")
    ELSE IF origin = RawNone THEN Err(s, "BadOrigin")
    ELSE IF ~(max_tokens > 0) THEN Err(s, "ZeroTokens")
    ELSE IF ~(currency_amount > 0) THEN Err(s, "ZeroCurrency")
    ELSE IF exchange_id \notin DOMAIN s.Exchanges THEN Err(s, "ExchangeNotExists")
    ELSE
    LET who == origin[1]
        exchange == s.Exchanges[exchange_id]
        total_liquidity == total_supply(s, exchange.liquidity_id)
    IN  IF total_liquidity > 0 THEN
            IF ~(min_liquidity > 0) THEN Err(s, "RequestedZeroLiquidity")
            ELSE
            LET currency_reserve == convert(get_currency_reserve(s, exchange))
                token_reserve == get_token_reserve(s, exchange)
            IN  IF currency_reserve = 0 THEN Panic(s)
                ELSE
                LET token_amount == (convert(currency_amount) * token_reserve) \div currency_reserve
                    liquidity_minted == (convert(currency_amount) * total_liquidity) \div currency_reserve
                IN  IF ~(max_tokens >= token_amount) THEN Err(s, "TooManyTokens")
                    ELSE IF ~(liquidity_minted > min_liquidity) THEN Err(s, "TooLowLiquidity")
                    ELSE
                    AndThen(Currency_transfer(s, who, exchange.account, currency_amount, TRUE), LAMBDA s1 :
                    AndThen(inner_mint(s1, exchange.liquidity_id, who, liquidity_minted), LAMBDA s2 :
                    AndThen(inner_transfer_from(s2, exchange.token_id, who, exchange.account, exchange.account, token_amount), LAMBDA s3 :
                    Ok(deposit_event(s3, <<"LiquidityAdded", exchange_id, who, currency_amount, token_amount>>)))))
        ELSE
            LET token_amount == max_tokens
            IN  AndThen(Currency_transfer(s, who, exchange.account, currency_amount, TRUE), LAMBDA s1 :
                LET initial_liquidity == convert(free_balance(s1, exchange.account))
                IN  AndThen(inner_mint(s1, exchange.liquidity_id, who, initial_liquidity), LAMBDA s2 :
                    AndThen(inner_transfer_from(s2, exchange.token_id, who, exchange.account, exchange.account, token_amount), LAMBDA s3 :
                    Ok(deposit_event(s3, <<"LiquidityAdded", exchange_id, who, currency_amount, token_amount>>)))))

\* add_liquidity taking the tokens by a plain transfer, past the allowance
add_liquidity_direct(s, n, origin, exchange_id, currency_amount, min_liquidity, max_tokens, deadline) ==
    IF ~(deadline > n) THEN Err(s, "Deadline")
    ELSE IF origin = RawNone THEN Err(s, "BadOrigin")
    ELSE IF ~(max_tokens > 0) THEN Err(s, "ZeroTokens")
    ELSE IF ~(currency_amount > 0) THEN Err(s, "ZeroCurrency")
    ELSE IF exchange_id \notin DOMAIN s.Exchanges THEN Err(s, "ExchangeNotExists")
    ELSE
    LET who == origin[1]
        exchange == s.Exchanges[exchange_id]
        total_liquidity == total_supply(s, exchange.liquidity_id)
    IN  IF total_liquidity > 0 THEN
            IF ~(min_liquidity > 0) THEN Err(s, "RequestedZeroLiquidity")
            ELSE
            LET currency_reserve == convert(get_currency_reserve(s, exchange))
                token_reserve == get_token_reserve(s, exchange)
            IN  IF currency_reserve = 0 THEN Panic(s)
                ELSE
                LET token_amount == (convert(currency_amount) * token_reserve) \div currency_reserve
                    liquidity_minted == (convert(currency_amount) * total_liquidity) \div currency_reserve
                IN  IF ~(max_tokens >= token_amount) THEN Err(s, "TooManyTokens")
                    ELSE IF ~(liquidity_minted >= min_liquidity) THEN Err(s, "TooLowLiquidity")
                    ELSE
                    AndThen(Currency_transfer(s, who, exchange.account, currency_amount, TRUE), LAMBDA s1 :
                    AndThen(inner_mint(s1, exchange.liquidity_id, who, liquidity_minted), LAMBDA s2 :
                    AndThen(inner_transfer(s2, exchange.token_id, who, exchange.account, token_amount), LAMBDA s3 :
                    Ok(deposit_event(s3, <<"LiquidityAdded", exchange_id, who, currency_amount, token_amount>>)))))
        ELSE
            LET token_amount == max_tokens
            IN  AndThen(Currency_transfer(s, who, exchange.account, currency_amount, TRUE), LAMBDA s1 :
                LET initial_liquidity == convert(free_balance(s1, exchange.account))
                IN  AndThen(inner_mint(s1, exchange.liquidity_id, who, initial_liquidity), LAMBDA s2 :
                    AndThen(inner_transfer(s2, exchange.token_id, who, exchange.account, token_amount), LAMBDA s3 :
                    Ok(deposit_event(s3, <<"LiquidityAdded", exchange_id, who, currency_amount, token_amount>>)))))

add_liquidity(s, n, origin, exchange_id, currency_amount, min_liquidity, max_tokens, deadline) ==
    IF ~(deadline > n) THEN Err(s, "Deadline")
    ELSE IF origin = RawNone THEN Err(s, "BadOrigin")
    ELSE IF ~(max_tokens > 0) THEN Err(s, "ZeroTokens")
    ELSE IF ~(currency_amount > 0) THEN Err(s, "ZeroCurrency")
    ELSE IF exchange_id \notin DOMAIN s.Exchanges THEN Err(s, "ExchangeNotExists")
    ELSE
    LET who == origin[1]
        exchange == s.Exchanges[exchange_id]
        total_liquidity == total_supply(s, exchange.liquidity_id)
    IN  IF total_liquidity > 0 THEN
            IF ~(min_liquidity > 0) THEN Err(s, "RequestedZeroLiquidity")
            ELSE
            LET currency_reserve == convert(get_currency_reserve(s, exchange))
                token_reserve == get_token_reserve(s, exchange)
            IN  IF currency_reserve = 0 THEN Panic(s)
                ELSE
                LET token_amount == (convert(currency_amount) * token_reserve) \div currency_reserve
                    liquidity_minted == (convert(currency_amount) * total_liquidity) \div currency_reserve
                IN  IF ~(max_tokens >= token_amount) THEN Err(s, "TooManyTokens")
                    ELSE IF ~(liquidity_minted >= min_liquidity) THEN Err(s, "TooLowLiquidity")
                    ELSE
                    AndThen(Currency_transfer(s, who, exchange.account, currency_amount, TRUE), LAMBDA s1 :
                    AndThen(inner_mint(s1, exchange.liquidity_id, who, liquidity_minted), LAMBDA s2 :
                    AndThen(inner_transfer_from(s2, exchange.token_id, who, exchange.account, exchange.account, token_amount), LAMBDA s3 :
                    Ok(deposit_event(s3, <<"LiquidityAdded", exchange_id, who, currency_amount, token_amount>>)))))
        ELSE
            LET token_amount == max_tokens
            IN  AndThen(Currency_transfer(s, who, exchange.account, currency_amount, TRUE), LAMBDA s1 :
                LET initial_liquidity == convert(free_balance(s1, exchange.account))
                IN  AndThen(inner_mint(s1, exchange.liquidity_id, who, initial_liquidity), LAMBDA s2 :
                    AndThen(inner_transfer_from(s2, exchange.token_id, who, exchange.account, exchange.account, token_amount), LAMBDA s3 :
                    Ok(deposit_event(s3, <<"LiquidityAdded", exchange_id, who, currency_amount, token_amount>>)))))

\* remove_liquidity paying out without burning the shares
remove_liquidity_keeps_shares(s, n, origin, exchange_id, zlk_to_burn, min_currency, min_tokens, deadline) ==
    IF ~(deadline > n) THEN Err(s, "Deadline")
    ELSE IF origin = RawNone THEN Err(s, "BadOrigin")
    ELSE IF ~(zlk_to_burn > 0) THEN Err(s, "BurnZeroShares")
    ELSE IF exchange_id \notin DOMAIN s.Exchanges THEN Err(s, "ExchangeNotExists")
    ELSE
    LET who == origin[1]
        exchange == s.Exchanges[exchange_id]
        total_liquidity == total_supply(s, exchange.liquidity_id)
    IN  IF ~(total_liquidity > 0) THEN Err(s, "NoLiquidity")
        ELSE
        LET token_reserve == get_token_reserve(s, exchange)
            currency_reserve == get_currency_reserve(s, exchange)
            currency_amount == (zlk_to_burn * convert(currency_reserve)) \div total_liquidity
            token_amount == (zlk_to_burn * token_reserve) \div total_liquidity
        IN  IF ~(unconvert(currency_amount) >= min_currency) THEN Err(s, "NotEnoughCurrency")
            ELSE IF ~(token_amount >= min_tokens) THEN Err(s, "NotEnoughTokens")
            ELSE
            AndThen(Ok(s), LAMBDA s1 :
            AndThen(Currency_transfer(s1, exchange.account, who, unconvert(currency_amount), FALSE), LAMBDA s2 :
            AndThen(inner_transfer(s2, exchange.token_id, exchange.account, who, token_amount), LAMBDA s3 :
            Ok(deposit_event(s3, <<"LiquidityRemoved", exchange_id, who, unconvert(currency_amount), token_amount>>)))))

\* remove_liquidity without the BurnZeroShares check
remove_liquidity_burns_zero(s, n, origin, exchange_id, zlk_to_burn, min_currency, min_tokens, deadline) ==
    IF ~(deadline > n) THEN Err(s, "Deadline")
    ELSE IF origin = RawNone THEN Err(s, "BadOrigin")
    ELSE IF exchange_id \notin DOMAIN s.Exchanges THEN Err(s, "ExchangeNotExists")
    ELSE
    LET who == origin[1]
        exchange == s.Exchanges[exchange_id]
        total_liquidity == total_supply(s, exchange.liquidity_id)
    IN  IF ~(total_liquidity > 0) THEN Err(s, "NoLiquidity")
        ELSE
        LET token_reserve == get_token_reserve(s, exchange)
            currency_reserve == get_currency_reserve(s, exchange)
            currency_amount == (zlk_to_burn * convert(currency_reserve)) \div total_liquidity
            token_amount == (zlk_to_burn * token_reserve) \div total_liquidity
        IN  IF ~(unconvert(currency_amount) >= min_currency) THEN Err(s, "NotEnoughCurrency")
            ELSE IF ~(token_amount >= min_tokens) THEN Err(s, "NotEnoughTokens")
            ELSE
            AndThen(inner_burn(s, exchange.liquidity_id, who, zlk_to_burn), LAMBDA s1 :
            AndThen(Currency_transfer(s1, exchange.account, who, unconvert(currency_amount), FALSE), LAMBDA s2 :
            AndThen(inner_transfer(s2, exchange.token_id, exchange.account, who, token_amount), LAMBDA s3 :
            Ok(deposit_event(s3, <<"LiquidityRemoved", exchange_id, who, unconvert(currency_amount), token_amount>>)))))

\* remove_liquidity paying one unit of currency more than the shares are worth
remove_liquidity_pays_extra(s, n, origin, exchange_id, zlk_to_burn, min_currency, min_tokens, deadline) ==
    IF ~(deadline > n) THEN Err(s, "Deadline")
    ELSE IF origin = RawNone THEN Err(s, "BadOrigin")
    ELSE IF ~(zlk_to_burn > 0) THEN Err(s, "BurnZeroShares")
    ELSE IF exchange_id \notin DOMAIN s.Exchanges THEN Err(s, "ExchangeNotExists")
    ELSE
    LET who == origin[1]
        exchange == s.Exchanges[exchange_id]
        total_liquidity == total_supply(s, exchange.liquidity_id)
    IN  IF ~(total_liquidity > 0) THEN Err(s, "NoLiquidity")
        ELSE
        LET token_reserve == get_token_reserve(s, exchange)
            currency_reserve == get_currency_reserve(s, exchange)
            currency_amount == ((zlk_to_burn * convert(currency_reserve)) \div total_liquidity) + 1
            token_amount == (zlk_to_burn * token_reserve) \div total_liquidity
        IN  IF ~(unconvert(currency_amount) >= min_currency) THEN Err(s, "NotEnoughCurrency")
            ELSE IF ~(token_amount >= min_tokens) THEN Err(s, "NotEnoughTokens")
            ELSE
            AndThen(inner_burn(s, exchange.liquidity_id, who, zlk_to_burn), LAMBDA s1 :
            AndThen(Currency_transfer(s1, exchange.account, who, unconvert(currency_amount), FALSE), LAMBDA s2 :
            AndThen(inner_transfer(s2, exchange.token_id, exchange.account, who, token_amount), LAMBDA s3 :
            Ok(deposit_event(s3, <<"LiquidityRemoved", exchange_id, who, unconvert(currency_amount), token_amount>>)))))

\* remove_liquidity accepting a deadline equal to the current block
remove_liquidity_inclusive(s, n, origin, exchange_id, zlk_to_burn, min_currency, min_tokens, deadline) ==
    IF ~(deadline >= n) THEN Err(s, "Deadline")
    ELSE IF origin = RawNone THEN Err(s, "BadOrigin")
    ELSE IF ~(zlk_to_burn > 0) THEN Err(s, "BurnZeroShares")
    ELSE IF exchange_id \notin DOMAIN s.Exchanges THEN Err(s, "ExchangeNotExists")
    ELSE
    LET who == origin[1]
        exchange == s.Exchanges[exchange_id]
        total_liquidity == total_supply(s, exchange.liquidity_id)
    IN  IF ~(total_liquidity > 0) THEN Err(s, "NoLiquidity")
        ELSE
        LET token_reserve == get_token_reserve(s, exchange)
            currency_reserve == get_currency_reserve(s, exchange)
            currency_amount == (zlk_to_burn * convert(currency_reserve)) \div total_liquidity
            token_amount == (zlk_to_burn * token_reserve) \div total_liquidity
        IN  IF ~(unconvert(currency_amount) >= min_currency) THEN Err(s, "NotEnoughCurrency")
            ELSE IF ~(token_amount >= min_tokens) THEN Err(s, "NotEnoughTokens")
            ELSE
            AndThen(inner_burn(s, exchange.liquidity_id, who, zlk_to_burn), LAMBDA s1 :
            AndThen(Currency_transfer(s1, exchange.account, who, unconvert(currency_amount), FALSE), LAMBDA s2 :
            AndThen(inner_transfer(s2, exchange.token_id, exchange.account, who, token_amount), LAMBDA s3 :
            Ok(deposit_event(s3, <<"LiquidityRemoved", exchange_id, who, unconvert(currency_amount), token_amount>>)))))

remove_liquidity(s, n, origin, exchange_id, zlk_to_burn, min_currency, min_tokens, deadline) ==
    IF ~(deadline > n) THEN Err(s, "Deadline")
    ELSE IF origin = RawNone THEN Err(s, "BadOrigin")
    ELSE IF ~(zlk_to_burn > 0) THEN Err(s, "BurnZeroShares")
    ELSE IF exchange_id \notin DOMAIN s.Exchanges THEN Err(s, "ExchangeNotExists")
    ELSE
    LET who == origin[1]
        exchange == s.Exchanges[exchange_id]
        total_liquidity == total_supply(s, exchange.liquidity_id)
    IN  IF ~(total_liquidity > 0) THEN Err(s, "NoLiquidity")
        ELSE
        LET token_reserve == get_token_reserve(s, exchange)
            currency_reserve == get_currency_reserve(s, exchange)
            currency_amount == (zlk_to_burn * convert(currency_reserve)) \div total_liquidity
            token_amount == (zlk_to_burn * token_reserve) \div total_liquidity
        IN  IF ~(unconvert(currency_amount) >= min_currency) THEN Err(s, "NotEnoughCurrency")
            ELSE IF ~(token_amount >= min_tokens) THEN Err(s, "NotEnoughTokens")
            ELSE
            AndThen(inner_burn(s, exchange.liquidity_id, who, zlk_to_burn), LAMBDA s1 :
            AndThen(Currency_transfer(s1, exchange.account, who, unconvert(currency_amount), FALSE), LAMBDA s2 :
            AndThen(inner_transfer(s2, exchange.token_id, exchange.account, who, token_amount), LAMBDA s3 :
            Ok(deposit_event(s3, <<"LiquidityRemoved", exchange_id, who, unconvert(currency_amount), token_amount>>)))))

\* currency_to_tokens_input crediting the buyer instead of the recipient
currency_to_tokens_input_to_buyer(s, n, checks, origin, exchange_id, currency_sold, min_tokens, deadline, recipient) ==
    IF ~(deadline > n) THEN Err(s, "Deadline")
    ELSE IF origin = RawNone THEN Err(s, "BadOrigin")
    ELSE IF ~(currency_sold > 0) THEN Err(s, "ZeroCurrency")
    ELSE IF ~(min_tokens > 0) THEN Err(s, "ZeroTokens")
    ELSE IF exchange_id \notin DOMAIN s.Exchanges THEN Err(s, "ExchangeNotExists")
    ELSE
    LET buyer == origin[1]
        exchange == s.Exchanges[exchange_id]
        token_reserve == get_token_reserve(s, exchange)
        currency_reserve == get_currency_reserve(s, exchange)
    IN  IF get_input_price_panics(convert(currency_sold), convert(currency_reserve), token_reserve) THEN Panic(s)
        ELSE
        LET tokens_bought == get_input_price(convert(currency_sold), convert(currency_reserve), token_reserve)
        IN  IF ~(tokens_bought >= min_tokens) THEN Err(s, "NotEnoughTokens")
            ELSE
            AndThen(Currency_transfer(s, buyer, exchange.account, currency_sold, TRUE), LAMBDA s1 :
            AndThen(inner_transfer(s1, exchange.token_id, exchange.account, buyer, tokens_bought), LAMBDA s2 :
            Ok(deposit_event(s2, <<"TokenPurchase", exchange_id, buyer, currency_sold, tokens_bought, recipient>>))))

currency_to_tokens_input(s, n, checks, origin, exchange_id, currency_sold, min_tokens, deadline, recipient) ==
    IF ~(deadline > n) THEN Err(s, "Deadline")
    ELSE IF origin = RawNone THEN Err(s, "BadOrigin")
    ELSE IF ~(currency_sold > 0) THEN Err(s, "ZeroCurrency")
    ELSE IF ~(min_tokens > 0) THEN Err(s, "ZeroTokens")
    ELSE IF exchange_id \notin DOMAIN s.Exchanges THEN Err(s, "ExchangeNotExists")
    ELSE
    LET buyer == origin[1]
        exchange == s.Exchanges[exchange_id]
        token_reserve == get_token_reserve(s, exchange)
        currency_reserve == get_currency_reserve(s, exchange)
    IN  IF get_input_price_panics(convert(currency_sold), convert(currency_reserve), token_reserve) THEN Panic(s)
        ELSE
        LET tokens_bought == get_input_price(convert(currency_sold), convert(currency_reserve), token_reserve)
        IN  IF ~(tokens_bought >= min_tokens) THEN Err(s, "NotEnoughTokens")
            ELSE
            AndThen(Currency_transfer(s, buyer, exchange.account, currency_sold, TRUE), LAMBDA s1 :
            AndThen(inner_transfer(s1, exchange.token_id, exchange.account, recipient, tokens_bought), LAMBDA s2 :
            Ok(deposit_event(s2, <<"TokenPurchase", exchange_id, buyer, currency_sold, tokens_bought, recipient>>))))

currency_to_tokens_output(s, n, checks, origin, exchange_id, tokens_bought, max_currency, deadline, recipient) ==
    IF ~(deadline >= n) THEN Err(s, "Deadline")
    ELSE IF origin = RawNone THEN Err(s, "BadOrigin")
    ELSE IF ~(tokens_bought > 0) THEN Err(s, "ZeroTokens")
    ELSE IF ~(max_currency > 0) THEN Err(s, "ZeroCurrency")
    ELSE IF exchange_id \notin DOMAIN s.Exchanges THEN Err(s, "ExchangeNotExists")
    ELSE
    LET buyer == origin[1]
        exchange == s.Exchanges[exchange_id]
        token_reserve == get_token_reserve(s, exchange)
        currency_reserve == get_currency_reserve(s, exchange)
    IN  IF get_output_price_panics(tokens_bought, convert(currency_reserve), token_reserve, checks) THEN Panic(s)
        ELSE
        LET currency_sold == get_output_price(tokens_bought, convert(currency_reserve), token_reserve)
        IN  IF ~(unconvert(currency_sold) <= max_currency) THEN Err(s, "TooExpensiveCurrency")
            ELSE
            AndThen(Currency_transfer(s, buyer, exchange.account, unconvert(currency_sold), TRUE), LAMBDA s1 :
            AndThen(inner_transfer(s1, exchange.token_id, exchange.account, recipient, tokens_bought), LAMBDA s2 :
            Ok(deposit_event(s2, <<"TokenPurchase", exchange_id, buyer, unconvert(currency_sold), tokens_bought, recipient>>))))

\* tokens_to_currency_input taking the tokens by a plain transfer, past the allowance
tokens_to_currency_input_direct(s, n, checks, origin, exchange_id, tokens_sold, min_currency, deadline, recipient) ==
    IF ~(deadline >= n) THEN Err(s, "Deadline")
    ELSE IF origin = RawNone THEN Err(s, "BadOrigin")
    ELSE IF ~(tokens_sold > 0) THEN Err(s, "ZeroTokens")
    ELSE IF ~(min_currency > 0) THEN Err(s, "ZeroCurrency")
    ELSE IF exchange_id \notin DOMAIN s.Exchanges THEN Err(s, "ExchangeNotExists")
    ELSE
    LET buyer == origin[1]
        exchange == s.Exchanges[exchange_id]
        token_reserve == get_token_reserve(s, exchange)
        currency_reserve == get_currency_reserve(s, exchange)
    IN  IF get_input_price_panics(tokens_sold, token_reserve, convert(currency_reserve)) THEN Panic(s)
        ELSE
        LET currency_bought == get_input_price(tokens_sold, token_reserve, convert(currency_reserve))
        IN  IF ~(currency_bought >= convert(min_currency)) THEN Err(s, "NotEnoughCurrency")
            ELSE
            AndThen(Currency_transfer(s, exchange.account, recipient, unconvert(currency_bought), FALSE), LAMBDA s1 :
            AndThen(inner_transfer(s1, exchange.token_id, buyer, exchange.account, tokens_sold), LAMBDA s2 :
            Ok(deposit_event(s2, <<"CurrencyPurchase", exchange_id, buyer, unconvert(currency_bought), tokens_sold, recipient>>))))

tokens_to_currency_input(s, n, checks, origin, exchange_id, tokens_sold, min_currency, deadline, recipient) ==
    IF ~(deadline >= n) THEN Err(s, "Deadline")
    ELSE IF origin = RawNone THEN Err(s, "BadOrigin")
    ELSE IF ~(tokens_sold > 0) THEN Err(s, "ZeroTokens")
    ELSE IF ~(min_currency > 0) THEN Err(s, "ZeroCurrency")
    ELSE IF exchange_id \notin DOMAIN s.Exchanges THEN Err(s, "ExchangeNotExists")
    ELSE
    LET buyer == origin[1]
        exchange == s.Exchanges[exchange_id]
        token_reserve == get_token_reserve(s, exchange)
        currency_reserve == get_currency_reserve(s, exchange)
    IN  IF get_input_price_panics(tokens_sold, token_reserve, convert(currency_reserve)) THEN Panic(s)
        ELSE
        LET currency_bought == get_input_price(tokens_sold, token_reserve, convert(currency_reserve))
        IN  IF ~(currency_bought >= convert(min_currency)) THEN Err(s, "NotEnoughCurrency")
            ELSE
            AndThen(Currency_transfer(s, exchange.account, recipient, unconvert(currency_bought), FALSE), LAMBDA s1 :
            AndThen(inner_transfer_from(s1, exchange.token_id, buyer, exchange.account, exchange.account, tokens_sold), LAMBDA s2 :
            Ok(deposit_event(s2, <<"CurrencyPurchase", exchange_id, buyer, unconvert(currency_bought), tokens_sold, recipient>>))))

tokens_to_currency_output(s, n, checks, origin, exchange_id, currency_bought, max_tokens, deadline, recipient) ==
    IF ~(deadline >= n) THEN Err(s, "Deadline")
    ELSE IF origin = RawNone THEN Err(s, "BadOrigin")
    ELSE IF ~(max_tokens > 0) THEN Err(s, "ZeroTokens")
    ELSE IF ~(currency_bought > 0) THEN Err(s, "ZeroCurrency")
    ELSE IF exchange_id \notin DOMAIN s.Exchanges THEN Err(s, "ExchangeNotExists")
    ELSE
    LET buyer == origin[1]
        exchange == s.Exchanges[exchange_id]
        token_reserve == get_token_reserve(s, exchange)
        currency_reserve == get_currency_reserve(s, exchange)
    IN  IF get_output_price_panics(convert(currency_bought), token_reserve, convert(currency_reserve), checks) THEN Panic(s)
        ELSE
        LET tokens_sold == get_output_price(convert(currency_bought), token_reserve, convert(currency_reserve))
        IN  IF ~(max_tokens >= tokens_sold) THEN Err(s, "TooExpensiveTokens")
            ELSE
            AndThen(Currency_transfer(s, exchange.account, buyer, currency_bought, FALSE), LAMBDA s1 :
            AndThen(inner_transfer_from(s1, exchange.token_id, recipient, exchange.account, exchange.account, tokens_sold), LAMBDA s2 :
            Ok(deposit_event(s2, <<"CurrencyPurchase", exchange_id, buyer, currency_bought, tokens_sold, recipient>>))))

\* token_to_token_input leaving the currency of the first leg in its exchange
token_to_token_input_keeps_currency(s, n, checks, origin, exchange_id, other_exchange_id, tokens_sold, min_other_tokens, deadline, recipient) ==
    IF ~(deadline >= n) THEN Err(s, "Deadline")
    ELSE IF origin = RawNone THEN Err(s, "BadOrigin")
    ELSE IF ~(tokens_sold > 0) THEN Err(s, "ZeroTokens")
    ELSE IF ~(min_other_tokens > 0) THEN Err(s, "ZeroTokens")
    ELSE IF exchange_id \notin DOMAIN s.Exchanges \/ other_exchange_id \notin DOMAIN s.Exchanges
         THEN Err(s, "ExchangeNotExists")
    ELSE
    LET buyer == origin[1]
        exchange == s.Exchanges[exchange_id]
        other_exchange == s.Exchanges[other_exchange_id]
        token_reserve == get_token_reserve(s, exchange)
        currency_reserve == get_currency_reserve(s, exchange)
    IN  IF get_input_price_panics(tokens_sold, token_reserve, convert(currency_reserve)) THEN Panic(s)
        ELSE
        LET currency_bought == get_input_price(tokens_sold, token_reserve, convert(currency_reserve))
            other_token_reserve == get_token_reserve(s, other_exchange)
            other_currency_reserve == get_currency_reserve(s, other_exchange)
        IN  IF get_input_price_panics(currency_bought, convert(other_currency_reserve), other_token_reserve) THEN Panic(s)
            ELSE
            LET other_tokens_bought == get_input_price(currency_bought, convert(other_currency_reserve), other_token_reserve)
            IN  IF ~(other_tokens_bought >= min_other_tokens) THEN Err(s, "NotEnoughTokens")
                ELSE
                AndThen(inner_transfer_from(s, exchange.token_id, buyer, exchange.account, exchange.account, tokens_sold), LAMBDA s1 :
                AndThen(Ok(s1), LAMBDA s2 :
                AndThen(inner_transfer(s2, other_exchange.token_id, other_exchange.account, recipient, other_tokens_bought), LAMBDA s3 :
                Ok(deposit_event(s3, <<"OtherTokenPurchase", exchange_id, other_exchange_id, buyer, tokens_sold, other_tokens_bought, recipient>>)))))

token_to_token_input(s, n, checks, origin, exchange_id, other_exchange_id, tokens_sold, min_other_tokens, deadline, recipient) ==
    IF ~(deadline >= n) THEN Err(s, "Deadline")
    ELSE IF origin = RawNone THEN Err(s, "BadOrigin")
    ELSE IF ~(tokens_sold > 0) THEN Err(s, "ZeroTokens")
    ELSE IF ~(min_other_tokens > 0) THEN Err(s, "ZeroTokens")
    ELSE IF exchange_id \notin DOMAIN s.Exchanges \/ other_exchange_id \notin DOMAIN s.Exchanges
         THEN Err(s, "ExchangeNotExists")
    ELSE
    LET buyer == origin[1]
        exchange == s.Exchanges[exchange_id]
        other_exchange == s.Exchanges[other_exchange_id]
        token_reserve == get_token_reserve(s, exchange)
        currency_reserve == get_currency_reserve(s, exchange)
    IN  IF get_input_price_panics(tokens_sold, token_reserve, convert(currency_reserve)) THEN Panic(s)
        ELSE
        LET currency_bought == get_input_price(tokens_sold, token_reserve, convert(currency_reserve))
            other_token_reserve == get_token_reserve(s, other_exchange)
            other_currency_reserve == get_currency_reserve(s, other_exchange)
        IN  IF get_input_price_panics(currency_bought, convert(other_currency_reserve), other_token_reserve) THEN Panic(s)
            ELSE
            LET other_tokens_bought == get_input_price(currency_bought, convert(other_currency_reserve), other_token_reserve)
            IN  IF ~(other_tokens_bought >= min_other_tokens) THEN Err(s, "NotEnoughTokens")
                ELSE
                AndThen(inner_transfer_from(s, exchange.token_id, buyer, exchange.account, exchange.account, tokens_sold), LAMBDA s1 :
                AndThen(Currency_transfer(s1, exchange.account, other_exchange.account, unconvert(currency_bought), TRUE), LAMBDA s2 :
                AndThen(inner_transfer(s2, other_exchange.token_id, other_exchange.account, recipient, other_tokens_bought), LAMBDA s3 :
                Ok(deposit_event(s3, <<"OtherTokenPurchase", exchange_id, other_exchange_id, buyer, tokens_sold, other_tokens_bought, recipient>>)))))

\* token_to_token_output delivering to the buyer instead of the recipient
token_to_token_output_to_buyer(s, n, checks, origin, exchange_id, other_exchange_id, other_tokens_bought, max_tokens, deadline, recipient) ==
    IF ~(deadline >= n) THEN Err(s, "Deadline")
    ELSE IF origin = RawNone THEN Err(s, "BadOrigin")
    ELSE IF ~(other_tokens_bought > 0) THEN Err(s, "ZeroTokens")
    ELSE IF ~(max_tokens > 0) THEN Err(s, "ZeroTokens")
    ELSE IF exchange_id \notin DOMAIN s.Exchanges \/ other_exchange_id \notin DOMAIN s.Exchanges
         THEN Err(s, "ExchangeNotExists")
    ELSE
    LET buyer == origin[1]
        exchange == s.Exchanges[exchange_id]
        other_exchange == s.Exchanges[other_exchange_id]
        other_tokens_reserve == get_token_reserve(s, other_exchange)
        other_currency_reserve == get_currency_reserve(s, other_exchange)
    IN  IF get_output_price_panics(other_tokens_bought, convert(other_currency_reserve), other_tokens_reserve, checks) THEN Panic(s)
        ELSE
        LET currency_sold == get_output_price(other_tokens_bought, convert(other_currency_reserve), other_tokens_reserve)
            token_reserve == get_token_reserve(s, exchange)
            currency_reserve == get_currency_reserve(s, exchange)
        IN  IF get_output_price_panics(currency_sold, token_reserve, convert(currency_reserve), checks) THEN Panic(s)
            ELSE
            LET tokens_sold == get_output_price(currency_sold, token_reserve, convert(currency_reserve))
            IN  IF ~(max_tokens >= tokens_sold) THEN Err(s, "TooExpensiveTokens")
                ELSE
                AndThen(inner_transfer_from(s, exchange.token_id, buyer, exchange.account, exchange.account, tokens_sold), LAMBDA s1 :
                AndThen(Currency_transfer(s1, exchange.account, other_exchange.account, unconvert(currency_sold), TRUE), LAMBDA s2 :
                AndThen(inner_transfer(s2, other_exchange.token_id, other_exchange.account, buyer, other_tokens_bought), LAMBDA s3 :
                Ok(deposit_event(s3, <<"OtherTokenPurchase", exchange_id, other_exchange_id, buyer, tokens_sold, other_tokens_bought, recipient>>)))))

token_to_token_output(s, n, checks, origin, exchange_id, other_exchange_id, other_tokens_bought, max_tokens, deadline, recipient) ==
    IF ~(deadline >= n) THEN Err(s, "Deadline")
    ELSE IF origin = RawNone THEN Err(s, "BadOrigin")
    ELSE IF ~(other_tokens_bought > 0) THEN Err(s, "ZeroTokens")
    ELSE IF ~(max_tokens > 0) THEN Err(s, "ZeroTokens")
    ELSE IF exchange_id \notin DOMAIN s.Exchanges \/ other_exchange_id \notin DOMAIN s.Exchanges
         THEN Err(s, "ExchangeNotExists")
    ELSE
    LET buyer == origin[1]
        exchange == s.Exchanges[exchange_id]
        other_exchange == s.Exchanges[other_exchange_id]
        other_tokens_reserve == get_token_reserve(s, other_exchange)
        other_currency_reserve == get_currency_reserve(s, other_exchange)
    IN  IF get_output_price_panics(other_tokens_bought, convert(other_currency_reserve), other_tokens_reserve, checks) THEN Panic(s)
        ELSE
        LET currency_sold == get_output_price(other_tokens_bought, convert(other_currency_reserve), other_tokens_reserve)
            token_reserve == get_token_reserve(s, exchange)
            currency_reserve == get_currency_reserve(s, exchange)
        IN  IF get_output_price_panics(currency_sold, token_reserve, convert(currency_reserve), checks) THEN Panic(s)
            ELSE
            LET tokens_sold == get_output_price(currency_sold, token_reserve, convert(currency_reserve))
            IN  IF ~(max_tokens >= tokens_sold) THEN Err(s, "TooExpensiveTokens")
                ELSE
                AndThen(inner_transfer_from(s, exchange.token_id, buyer, exchange.account, exchange.account, tokens_sold), LAMBDA s1 :
                AndThen(Currency_transfer(s1, exchange.account, other_exchange.account, unconvert(currency_sold), TRUE), LAMBDA s2 :
                AndThen(inner_transfer(s2, other_exchange.token_id, other_exchange.account, recipient, other_tokens_bought), LAMBDA s3 :
                Ok(deposit_event(s3, <<"OtherTokenPurchase", exchange_id, other_exchange_id, buyer, tokens_sold, other_tokens_bought, recipient>>)))))

---------------------------------------------------------------------------
(* State machine *)

\* no call is being reported
NoCall == [op |-> "none", res |-> "Ok", args |-> << >>]

\* deadlines around the current block
Deadlines == {d \in {now - 1, now, now + 1} : d >= 0}

\* storage at genesis: no asset, no exchange, the users endowed with currency
GenesisStorage ==
    [AssetInfos |-> << >>,
     Balances |-> [k \in AssetIds \X Accounts |-> 0],
     NextAssetId |-> 0,
     TotalSupply |-> [id \in AssetIds |-> 0],
     Allowances |-> [k \in AssetIds \X Accounts \X Accounts |-> 0],
     TokenToExchange |-> << >>,
     Exchanges |-> << >>,
     NextExchangeId |-> 0,
     FreeBalance |-> [a \in Accounts |-> IF a \in Users THEN Endowment ELSE 0],
     Events |-> << >>]

\* the storage genesis reaches when user 1 issues a token, creates its
\* exchange, approves the exchange account and makes the first provision:
\* four dispatched calls, applied here by the handlers themselves
Provisioned(currency_amount, max_tokens, allowance) ==
    AndThen(issue(GenesisStorage, Signed(1), IssueTotal, TEST_TOKEN), LAMBDA s1 :
    AndThen(create_exchange(s1, Signed(1), 0), LAMBDA s2 :
    AndThen(allow(s2, Signed(1), 0, into_sub_account(0), allowance), LAMBDA s3 :
    add_liquidity(s3, 1, Signed(1), 0, currency_amount, 0, max_tokens, 2))))

\* the storage a provisioned exchange reaches when user 2 issues a second
\* token, creates its exchange, approves the exchange account and makes the
\* first provision: four more dispatched calls, applied by the handlers
ProvisionedTwice ==
    AndThen(Provisioned(2, 1, IssueTotal), LAMBDA s4 :
    AndThen(issue(s4, Signed(2), IssueTotal, TEST_TOKEN), LAMBDA s5 :
    AndThen(create_exchange(s5, Signed(2), 2), LAMBDA s6 :
    AndThen(allow(s6, Signed(2), 2, into_sub_account(1), IssueTotal), LAMBDA s7 :
    add_liquidity(s7, 1, Signed(2), 1, 1, 0, 3, 2)))))

\* the first provisions a behaviour can start from: currency and tokens
Provisions == ({1, 2} \X {2, 3}) \cup {<<2, 1>>}

\* a behaviour starts at genesis, at a provisioned exchange or at two
\* provisioned exchanges
InitStorages ==
    {GenesisStorage} \cup
    {[r.s EXCEPT !.Events = << >>] :
        r \in {x \in {Provisioned(p[1], p[2], IssueTotal) : p \in Provisions}
                    \cup {ProvisionedTwice} : x.res = "Ok"}}

\* a behaviour that starts at one provisioned exchange is one call shorter,
\* one that starts at two is two calls shorter
CallsBefore(s) == IF s.NextExchangeId < 2 THEN s.NextExchangeId ELSE 2

Init ==
    /\ \E s \in InitStorages :
        /\ AssetInfos = s.AssetInfos
        /\ Balances = s.Balances
        /\ NextAssetId = s.NextAssetId
        /\ TotalSupply = s.TotalSupply
        /\ Allowances = s.Allowances
        /\ TokenToExchange = s.TokenToExchange
        /\ Exchanges = s.Exchanges
        /\ NextExchangeId = s.NextExchangeId
        /\ FreeBalance = s.FreeBalance
        /\ calls = CallsBefore(s)
    /\ Events = << >>
    /\ now = 1
    /\ overflow_checks \in BOOLEAN
    /\ last = NoCall

\* the storage after a dispatched call, and the record of the call; the
\* arguments are kept for a call that wrote to storage
Commit(r, op, args) ==
    /\ AssetInfos' = r.s.AssetInfos
    /\ Balances' = r.s.Balances
    /\ NextAssetId' = r.s.NextAssetId
    /\ TotalSupply' = r.s.TotalSupply
    /\ Allowances' = r.s.Allowances
    /\ TokenToExchange' = r.s.TokenToExchange
    /\ Exchanges' = r.s.Exchanges
    /\ NextExchangeId' = r.s.NextExchangeId
    /\ FreeBalance' = r.s.FreeBalance
    /\ Events' = r.s.Events
    /\ last' = [op |-> op, res |-> r.res, args |-> IF r.s = Storage THEN << >> ELSE args]
    /\ calls' = calls + 1
    /\ UNCHANGED <<now, overflow_checks>>

\* a call can be dispatched
Ready == last = NoCall /\ calls < MaxCalls

\* The arguments a call is dispatched with.  A call that is unsigned, whose
\* deadline is not in the future, or that names an asset not issued or an
\* exchange not created yet, is dispatched with plain other arguments only;
\* the remaining calls range over all arguments.
Scoped(origin, id, args, plain) ==
    (origin = RawNone \/ id >= NextAssetId) => args = plain

ScopedExchange(origin, deadline, exchanges, args, plain) ==
    (origin = RawNone \/ deadline <= now \/ exchanges \ DOMAIN Exchanges # {})
        => args = plain

\* the asset ids issued so far and the next one to be issued
LiveAssetIds == {id \in AssetIds : id <= NextAssetId}

\* the exchange ids assigned so far and the next one to be assigned
LiveExchangeIds == {e \in ExchangeIds : e <= NextExchangeId}

\* the users and the accounts of the exchanges created so far
LiveAccounts == Users \cup {Exchanges[e].account : e \in DOMAIN Exchanges}

\* the accounts a transfer can name: the account of the exchange to be created
\* next is known before the exchange exists
FundableAccounts == Users \cup {into_sub_account(e) : e \in LiveExchangeIds}

call_issue ==
    /\ Ready
    /\ NextAssetId < MaxAssets
    /\ \E origin \in Origins, total \in IssueTotals :
        /\ origin = RawNone => total = 0
        /\ Commit(issue(Storage, origin, total, TEST_TOKEN), "issue", <<origin, total>>)

call_transfer ==
    /\ Ready
    /\ \E origin \in Origins, id \in LiveAssetIds, target \in FundableAccounts, amount \in Amounts :
        /\ Scoped(origin, id, <<target, amount>>, <<1, 1>>)
        /\ Commit(transfer(Storage, origin, id, target, amount), "transfer",
               <<origin, id, target, amount>>)

call_allow ==
    /\ Ready
    /\ \E origin \in Origins, id \in LiveAssetIds, spender \in LiveAccounts, amount \in Amounts :
        /\ Scoped(origin, id, <<spender, amount>>, <<1, 1>>)
        /\ Commit(allow(Storage, origin, id, spender, amount), "allow",
               <<origin, id, spender, amount>>)

call_transfer_from ==
    /\ Ready
    /\ \E origin \in Origins, id \in LiveAssetIds, from \in LiveAccounts, target \in LiveAccounts,
          amount \in Amounts :
        /\ Scoped(origin, id, <<from, target, amount>>, <<1, 1, 1>>)
        /\ Commit(transfer_from(Storage, origin, id, from, target, amount), "transfer_from",
               <<origin, id, from, target, amount>>)

call_create_exchange ==
    /\ Ready
    /\ \E origin \in Origins, token_id \in LiveAssetIds :
        /\ \/ NextAssetId < MaxAssets /\ NextExchangeId < MaxExchanges
           \/ create_exchange(Storage, origin, token_id).res # "Ok"
        /\ Commit(create_exchange(Storage, origin, token_id), "create_exchange",
               <<origin, token_id>>)

call_add_liquidity ==
    /\ Ready
    /\ \E origin \in Origins, exchange_id \in LiveExchangeIds, currency_amount \in Amounts,
          min_liquidity \in Amounts, max_tokens \in Amounts, deadline \in Deadlines :
        /\ ScopedExchange(origin, deadline, {exchange_id},
                          <<currency_amount, min_liquidity, max_tokens>>, <<1, 1, 1>>)
        /\ Commit(add_liquidity(Storage, now, origin, exchange_id, currency_amount,
                             min_liquidity, max_tokens, deadline),
               "add_liquidity",
               <<origin, exchange_id, currency_amount, min_liquidity, max_tokens, deadline>>)

call_remove_liquidity ==
    /\ Ready
    /\ \E origin \in Origins, exchange_id \in LiveExchangeIds, zlk_to_burn \in Amounts,
          min_currency \in Amounts, min_tokens \in Amounts, deadline \in Deadlines :
        /\ ScopedExchange(origin, deadline, {exchange_id},
                          <<zlk_to_burn, min_currency, min_tokens>>, <<1, 1, 1>>)
        /\ Commit(remove_liquidity(Storage, now, origin, exchange_id, zlk_to_burn,
                                min_currency, min_tokens, deadline),
               "remove_liquidity",
               <<origin, exchange_id, zlk_to_burn, min_currency, min_tokens, deadline>>)

call_currency_to_tokens_input ==
    /\ Ready
    /\ \E origin \in Origins, exchange_id \in LiveExchangeIds, currency_sold \in Amounts,
          min_tokens \in Amounts, deadline \in Deadlines, recipient \in LiveAccounts :
        /\ ScopedExchange(origin, deadline, {exchange_id},
                          <<currency_sold, min_tokens, recipient>>, <<1, 1, 1>>)
        /\ Commit(currency_to_tokens_input(Storage, now, overflow_checks, origin, exchange_id,
                                        currency_sold, min_tokens, deadline, recipient),
               "currency_to_tokens_input",
               <<origin, exchange_id, currency_sold, min_tokens, deadline, recipient>>)

call_currency_to_tokens_output ==
    /\ Ready
    /\ \E origin \in Origins, exchange_id \in LiveExchangeIds, tokens_bought \in Amounts,
          max_currency \in Amounts, deadline \in Deadlines, recipient \in LiveAccounts :
        /\ ScopedExchange(origin, deadline, {exchange_id},
                          <<tokens_bought, max_currency, recipient>>, <<1, 1, 1>>)
        /\ Commit(currency_to_tokens_output(Storage, now, overflow_checks, origin, exchange_id,
                                         tokens_bought, max_currency, deadline, recipient),
               "currency_to_tokens_output",
               <<origin, exchange_id, tokens_bought, max_currency, deadline, recipient>>)

call_tokens_to_currency_input ==
    /\ Ready
    /\ \E origin \in Origins, exchange_id \in LiveExchangeIds, tokens_sold \in Amounts,
          min_currency \in Amounts, deadline \in Deadlines, recipient \in LiveAccounts :
        /\ ScopedExchange(origin, deadline, {exchange_id},
                          <<tokens_sold, min_currency, recipient>>, <<1, 1, 1>>)
        /\ Commit(tokens_to_currency_input(Storage, now, overflow_checks, origin, exchange_id,
                                        tokens_sold, min_currency, deadline, recipient),
               "tokens_to_currency_input",
               <<origin, exchange_id, tokens_sold, min_currency, deadline, recipient>>)

call_tokens_to_currency_output ==
    /\ Ready
    /\ \E origin \in Origins, exchange_id \in LiveExchangeIds, currency_bought \in Amounts,
          max_tokens \in Amounts, deadline \in Deadlines, recipient \in LiveAccounts :
        /\ ScopedExchange(origin, deadline, {exchange_id},
                          <<currency_bought, max_tokens, recipient>>, <<1, 1, 1>>)
        /\ Commit(tokens_to_currency_output(Storage, now, overflow_checks, origin, exchange_id,
                                         currency_bought, max_tokens, deadline, recipient),
               "tokens_to_currency_output",
               <<origin, exchange_id, currency_bought, max_tokens, deadline, recipient>>)

call_token_to_token_input ==
    /\ Ready
    /\ \E origin \in Origins, exchange_id \in LiveExchangeIds, other_exchange_id \in LiveExchangeIds,
          tokens_sold \in Amounts, min_other_tokens \in Amounts, deadline \in Deadlines,
          recipient \in LiveAccounts :
        /\ ScopedExchange(origin, deadline, {exchange_id, other_exchange_id},
                          <<tokens_sold, min_other_tokens, recipient>>, <<1, 1, 1>>)
        /\ Commit(token_to_token_input(Storage, now, overflow_checks, origin, exchange_id,
                                    other_exchange_id, tokens_sold, min_other_tokens,
                                    deadline, recipient),
               "token_to_token_input",
               <<origin, exchange_id, other_exchange_id, tokens_sold, min_other_tokens,
                 deadline, recipient>>)

call_token_to_token_output ==
    /\ Ready
    /\ \E origin \in Origins, exchange_id \in LiveExchangeIds, other_exchange_id \in LiveExchangeIds,
          other_tokens_bought \in Amounts, max_tokens \in Amounts, deadline \in Deadlines,
          recipient \in LiveAccounts :
        /\ ScopedExchange(origin, deadline, {exchange_id, other_exchange_id},
                          <<other_tokens_bought, max_tokens, recipient>>, <<1, 1, 1>>)
        /\ Commit(token_to_token_output(Storage, now, overflow_checks, origin, exchange_id,
                                     other_exchange_id, other_tokens_bought, max_tokens,
                                     deadline, recipient),
               "token_to_token_output",
               <<origin, exchange_id, other_exchange_id, other_tokens_bought, max_tokens,
                 deadline, recipient>>)

\* the host finishes the extrinsic: its result has been reported and its
\* events belong to the past; the next call can be dispatched
finish_extrinsic ==
    /\ last # NoCall
    /\ last' = NoCall
    /\ Events' = << >>
    /\ UNCHANGED <<AssetInfos, Balances, NextAssetId, TotalSupply, Allowances,
                   TokenToExchange, Exchanges, NextExchangeId, FreeBalance,
                   now, calls, overflow_checks>>

Next ==
    \/ call_issue
    \/ call_transfer
    \/ call_allow
    \/ call_transfer_from
    \/ call_create_exchange
    \/ call_add_liquidity
    \/ call_remove_liquidity
    \/ call_currency_to_tokens_input
    \/ call_currency_to_tokens_output
    \/ call_tokens_to_currency_input
    \/ call_tokens_to_currency_output
    \/ call_token_to_token_input
    \/ call_token_to_token_output
    \/ finish_extrinsic

Spec == Init /\ [][Next]_vars

---------------------------------------------------------------------------
(* Liquidity round trips: a provision and the removal of the shares it minted *)

\* genesis with the users endowed for larger provisions
FundedGenesis ==
    [GenesisStorage EXCEPT
        !.FreeBalance = [a \in Accounts |-> IF a \in Users THEN RoundTripEndowment ELSE 0]]

\* the storage after user 1 has issued a token, created its exchange,
\* approved the exchange account and provided 1 currency and max_tokens
\* tokens, and user 2 has sold currency_sold currency to the exchange
Traded(max_tokens, currency_sold, checks) ==
    AndThen(issue(FundedGenesis, Signed(1), RoundTripTotal, TEST_TOKEN), LAMBDA s1 :
    AndThen(create_exchange(s1, Signed(1), 0), LAMBDA s2 :
    AndThen(allow(s2, Signed(1), 0, into_sub_account(0), RoundTripTotal), LAMBDA s3 :
    AndThen(add_liquidity(s3, 1, Signed(1), 0, 1, 0, max_tokens, 2), LAMBDA s4 :
    IF currency_sold = 0 THEN Ok(s4)
    ELSE currency_to_tokens_input(s4, 1, checks, Signed(2), 0, currency_sold, 1, 2, 2)))))

\* the storage variables take the values a call leaves
Stored(r) ==
    /\ AssetInfos' = r.s.AssetInfos
    /\ Balances' = r.s.Balances
    /\ NextAssetId' = r.s.NextAssetId
    /\ TotalSupply' = r.s.TotalSupply
    /\ Allowances' = r.s.Allowances
    /\ TokenToExchange' = r.s.TokenToExchange
    /\ Exchanges' = r.s.Exchanges
    /\ NextExchangeId' = r.s.NextExchangeId
    /\ FreeBalance' = r.s.FreeBalance
    /\ Events' = r.s.Events
    /\ calls' = calls + 1
    /\ UNCHANGED <<now, overflow_checks>>

RoundTripInit ==
    /\ overflow_checks \in BOOLEAN
    /\ \E max_tokens \in 2 .. 4, currency_sold \in 0 .. 3 :
        LET r == Traded(max_tokens, currency_sold, overflow_checks)
        IN  /\ r.res = "Ok"
            /\ AssetInfos = r.s.AssetInfos
            /\ Balances = r.s.Balances
            /\ NextAssetId = r.s.NextAssetId
            /\ TotalSupply = r.s.TotalSupply
            /\ Allowances = r.s.Allowances
            /\ TokenToExchange = r.s.TokenToExchange
            /\ Exchanges = r.s.Exchanges
            /\ NextExchangeId = r.s.NextExchangeId
            /\ FreeBalance = r.s.FreeBalance
    /\ Events = << >>
    /\ now = 1
    /\ calls = 0
    /\ last = NoCall

\* add_liquidity on the exchange, which has liquidity; the record keeps the
\* caller, the currency c and tokens t deposited, the shares m minted, and
\* the reserves CR, TR and supply L before the call
round_trip_add_liquidity ==
    /\ last = NoCall
    /\ \E who \in Users, currency_amount \in 1 .. RoundTripAmount :
        LET exchange == Exchanges[0]
            r == add_liquidity(Storage, now, Signed(who), 0, currency_amount, 1,
                               RoundTripTotal, now + 1)
        IN  /\ Stored(r)
            /\ last' = [op |-> "add_liquidity", res |-> r.res,
                        args |-> <<who,
                                   FreeBalance[who] - r.s.FreeBalance[who],
                                   Balances[<<exchange.token_id, who>>]
                                        - r.s.Balances[<<exchange.token_id, who>>],
                                   r.s.Balances[<<exchange.liquidity_id, who>>]
                                        - Balances[<<exchange.liquidity_id, who>>],
                                   FreeBalance[exchange.account],
                                   Balances[<<exchange.token_id, exchange.account>>],
                                   TotalSupply[exchange.liquidity_id]>>]

\* remove_liquidity by the same caller, next, for exactly the shares minted;
\* the record is extended by the currency and the tokens the caller got back
round_trip_remove_liquidity ==
    /\ last.op = "add_liquidity"
    /\ last.res = "Ok"
    /\ LET who == last.args[1]
           exchange == Exchanges[0]
           r == remove_liquidity(Storage, now, Signed(who), 0, last.args[4], 0, 0, now + 1)
       IN  /\ Stored(r)
           /\ last' = [op |-> "remove_liquidity", res |-> r.res,
                       args |-> last.args \o
                                <<r.s.FreeBalance[who] - FreeBalance[who],
                                  r.s.Balances[<<exchange.token_id, who>>]
                                        - Balances[<<exchange.token_id, who>>]>>]

RoundTripNext ==
    \/ round_trip_add_liquidity
    \/ round_trip_remove_liquidity

RoundTripSpec == RoundTripInit /\ [][RoundTripNext]_vars

---------------------------------------------------------------------------
(* Later provisions: add_liquidity on an exchange whose first provision was
   of several units of currency *)

\* the storage after user 1 has issued a token, created its exchange,
\* approved the exchange account and provided currency_amount currency and
\* max_tokens tokens
Provided(currency_amount, max_tokens) ==
    AndThen(issue(FundedGenesis, Signed(1), RoundTripTotal, TEST_TOKEN), LAMBDA s1 :
    AndThen(create_exchange(s1, Signed(1), 0), LAMBDA s2 :
    AndThen(allow(s2, Signed(1), 0, into_sub_account(0), RoundTripTotal), LAMBDA s3 :
    add_liquidity(s3, 1, Signed(1), 0, currency_amount, 0, max_tokens, 2))))

ProvidedInit ==
    /\ overflow_checks \in BOOLEAN
    /\ \E currency_amount \in 1 .. 4, max_tokens \in 1 .. 4 :
        LET r == Provided(currency_amount, max_tokens)
        IN  /\ r.res = "Ok"
            /\ AssetInfos = r.s.AssetInfos
            /\ Balances = r.s.Balances
            /\ NextAssetId = r.s.NextAssetId
            /\ TotalSupply = r.s.TotalSupply
            /\ Allowances = r.s.Allowances
            /\ TokenToExchange = r.s.TokenToExchange
            /\ Exchanges = r.s.Exchanges
            /\ NextExchangeId = r.s.NextExchangeId
            /\ FreeBalance = r.s.FreeBalance
    /\ Events = << >>
    /\ now = 1
    /\ calls = 0
    /\ last = NoCall

\* a later provision, and the removal of the shares it minted
LaterProvisionSpec == ProvidedInit /\ [][RoundTripNext]_vars

---------------------------------------------------------------------------
(* Pricing quotes: the two pricing functions applied to amounts and reserves *)

\* reserves and amounts of a quote; 997 and 2002 make the divisions exact
Reserves == (0 .. MaxReserve) \cup {997, 2002}

PriceInit ==
    /\ AssetInfos = GenesisStorage.AssetInfos
    /\ Balances = GenesisStorage.Balances
    /\ NextAssetId = GenesisStorage.NextAssetId
    /\ TotalSupply = GenesisStorage.TotalSupply
    /\ Allowances = GenesisStorage.Allowances
    /\ TokenToExchange = GenesisStorage.TokenToExchange
    /\ Exchanges = GenesisStorage.Exchanges
    /\ NextExchangeId = GenesisStorage.NextExchangeId
    /\ FreeBalance = GenesisStorage.FreeBalance
    /\ Events = << >>
    /\ now = 1
    /\ calls = 0
    /\ overflow_checks \in BOOLEAN
    /\ last = NoCall

\* get_input_price(input_amount, input_reserve, output_reserve), recorded
\* with its arguments and the value returned
quote_input_price ==
    /\ last.op = NoCall.op
    /\ \E input_amount \in 0 .. MaxReserve, input_reserve \in Reserves,
          output_reserve \in Reserves :
        last' = [op |-> "get_input_price",
                 res |-> IF get_input_price_panics(input_amount, input_reserve, output_reserve)
                         THEN "Panic"
                         ELSE get_input_price(input_amount, input_reserve, output_reserve),
                 args |-> <<input_amount, input_reserve, output_reserve>>]
    /\ calls' = calls + 1
    /\ UNCHANGED <<AssetInfos, Balances, NextAssetId, TotalSupply, Allowances,
                   TokenToExchange, Exchanges, NextExchangeId, FreeBalance, Events,
                   now, overflow_checks>>

\* get_output_price(output_amount, input_reserve, output_reserve), recorded
\* with its arguments and the value returned
quote_output_price ==
    /\ last.op = NoCall.op
    /\ \E output_amount \in 0 .. MaxReserve, input_reserve \in Reserves,
          output_reserve \in Reserves :
        last' = [op |-> "get_output_price",
                 res |-> IF get_output_price_panics(output_amount, input_reserve,
                                                    output_reserve, overflow_checks)
                         THEN "Panic"
                         ELSE get_output_price(output_amount, input_reserve, output_reserve),
                 args |-> <<output_amount, input_reserve, output_reserve>>]
    /\ calls' = calls + 1
    /\ UNCHANGED <<AssetInfos, Balances, NextAssetId, TotalSupply, Allowances,
                   TokenToExchange, Exchanges, NextExchangeId, FreeBalance, Events,
                   now, overflow_checks>>

PriceNext ==
    \/ quote_input_price
    \/ quote_output_price

PriceSpec == PriceInit /\ [][PriceNext]_vars

---------------------------------------------------------------------------
(* Arithmetic in the token balance type: the products and sums of the
   pricing functions and of add_liquidity, evaluated in TokenBalanceBits bits *)

\* TokenBalance is an unsigned integer type of this many bits
TokenBalanceBits == 10

TokenBalanceModulus == 2 ^ TokenBalanceBits

\* the value a wrapping operation of the type leaves
wrapping(x) == x % TokenBalanceModulus

\* the exact value of an operation does not fit the type: the operators
\* *, + and - panic in a build with overflow checks and wrap in one without
overflows(x) == x < 0 \/ x >= TokenBalanceModulus

\* a value of the type, or the panic that ended its computation
Returned(value) == [panic |-> FALSE, value |-> value]
Panicked == [panic |-> TRUE, value |-> 0]

\* get_input_price on TokenBalance operands
get_input_price_in_type(checks, input_amount, input_reserve, output_reserve) ==
    LET input_amount_with_fee == wrapping(input_amount * 997)
        numerator == wrapping(input_amount_with_fee * output_reserve)
        denominator == wrapping(wrapping(input_reserve * 1000) + input_amount_with_fee)
    IN  IF checks /\ (\/ overflows(input_amount * 997)
                      \/ overflows(input_amount_with_fee * output_reserve)
                      \/ overflows(input_reserve * 1000)
                      \/ overflows((input_reserve * 1000) + input_amount_with_fee))
        THEN Panicked
        ELSE IF denominator = 0 THEN Panicked
        ELSE Returned(numerator \div denominator)

\* get_output_price on TokenBalance operands
get_output_price_in_type(checks, output_amount, input_reserve, output_reserve) ==
    LET product == wrapping(input_reserve * output_amount)
        numerator == wrapping(product * 1000)
        difference == wrapping(output_reserve - output_amount)
        denominator == wrapping(difference * 997)
    IN  IF checks /\ (\/ overflows(input_reserve * output_amount)
                      \/ overflows(product * 1000)
                      \/ overflows(output_reserve - output_amount)
                      \/ overflows(difference * 997))
        THEN Panicked
        ELSE IF denominator = 0 THEN Panicked
        ELSE IF checks /\ overflows((numerator \div denominator) + 1) THEN Panicked
        ELSE Returned(wrapping((numerator \div denominator) + 1))

\* token_amount of add_liquidity on an exchange with liquidity, on
\* TokenBalance operands
token_amount_in_type(checks, currency_amount, token_reserve, currency_reserve) ==
    IF checks /\ overflows(currency_amount * token_reserve) THEN Panicked
    ELSE IF currency_reserve = 0 THEN Panicked
    ELSE Returned(wrapping(currency_amount * token_reserve) \div currency_reserve)

\* amounts and reserves of the type, up to its greatest value
TypeAmounts == {0, 1, 2, 3, 64, 66, 1000, 1023}

\* a pricing function or formula applied to operands of the type; the record
\* keeps the operands and the value returned
Evaluated(op, r, operands) ==
    /\ last' = [op |-> op, res |-> IF r.panic THEN "Panic" ELSE "Ok",
                args |-> operands \o <<r.value>>]
    /\ calls' = calls + 1
    /\ UNCHANGED <<AssetInfos, Balances, NextAssetId, TotalSupply, Allowances,
                   TokenToExchange, Exchanges, NextExchangeId, FreeBalance, Events,
                   now, overflow_checks>>

evaluate_get_input_price ==
    /\ last.op = NoCall.op
    /\ \E input_amount \in TypeAmounts, input_reserve \in TypeAmounts,
          output_reserve \in TypeAmounts :
        Evaluated("get_input_price",
                  get_input_price_in_type(overflow_checks, input_amount, input_reserve,
                                          output_reserve),
                  <<input_amount, input_reserve, output_reserve>>)

evaluate_get_output_price ==
    /\ last.op = NoCall.op
    /\ \E output_amount \in TypeAmounts, input_reserve \in TypeAmounts,
          output_reserve \in TypeAmounts :
        Evaluated("get_output_price",
                  get_output_price_in_type(overflow_checks, output_amount, input_reserve,
                                           output_reserve),
                  <<output_amount, input_reserve, output_reserve>>)

evaluate_token_amount ==
    /\ last.op = NoCall.op
    /\ \E currency_amount \in TypeAmounts, token_reserve \in TypeAmounts,
          currency_reserve \in TypeAmounts :
        Evaluated("token_amount",
                  token_amount_in_type(overflow_checks, currency_amount, token_reserve,
                                       currency_reserve),
                  <<currency_amount, token_reserve, currency_reserve>>)

ArithmeticNext ==
    \/ evaluate_get_input_price
    \/ evaluate_get_output_price
    \/ evaluate_token_amount

ArithmeticSpec == PriceInit /\ [][ArithmeticNext]_vars

---------------------------------------------------------------------------
(* The asset id counter: issue and create_exchange with next_asset_id in a
   type of MaxAssets values *)

\* `*id += One::one()` on the greatest value of AssetId: a panic in a build
\* with overflow checks, which discards the call, and a wrap to zero in one
\* without; r is the result of the call on storage s
next_asset_id_in_type(checks, s, r) ==
    IF r.s.NextAssetId < MaxAssets THEN r
    ELSE IF checks THEN Panic(s)
    ELSE [r EXCEPT !.s.NextAssetId = @ % MaxAssets]

\* the storage a call leaves, and the record of the call
Issued(r, op, args) ==
    /\ Stored(r)
    /\ last' = [op |-> op, res |-> r.res, args |-> args]

\* issue by a user, of a total that tells the issues apart
issue_in_type ==
    /\ calls <= MaxAssets
    /\ \E who \in Users, total \in 1 .. 2 :
        Issued(next_asset_id_in_type(overflow_checks, Storage,
                    issue(Storage, Signed(who), total + calls, TEST_TOKEN)),
               "issue", <<who, total + calls>>)

\* create_exchange by a user, for an asset that has been issued
create_exchange_in_type ==
    /\ calls <= MaxAssets
    /\ NextExchangeId < MaxExchanges
    /\ \E who \in Users, token_id \in DOMAIN AssetInfos :
        Issued(next_asset_id_in_type(overflow_checks, Storage,
                    create_exchange(Storage, Signed(who), token_id)),
               "create_exchange", <<who, token_id>>)

AssetIdNext ==
    \/ issue_in_type
    \/ create_exchange_in_type

AssetIdSpec == PriceInit /\ [][AssetIdNext]_vars

---------------------------------------------------------------------------
(* Properties: vocabulary *)

\* the variables of pallet and currency storage
StorageVars == <<AssetInfos, Balances, NextAssetId, TotalSupply, Allowances,
                 TokenToExchange, Exchanges, NextExchangeId, FreeBalance>>

\* the state from which the next call is dispatched
Dispatching == last = NoCall

\* sum of f over the set S of its arguments
RECURSIVE SumOver(_, _)
SumOver(S, f) ==
    IF S = {} THEN 0
    ELSE LET x == CHOOSE y \in S : TRUE
         IN f[x] + SumOver(S \ {x}, f)

\* sum over all accounts of balances(id, account)
SumOfBalances(id) == SumOver(Accounts, [a \in Accounts |-> Balances[<<id, a>>]])

DexOps == {"create_exchange", "add_liquidity", "remove_liquidity",
           "currency_to_tokens_input", "currency_to_tokens_output",
           "tokens_to_currency_input", "tokens_to_currency_output",
           "token_to_token_input", "token_to_token_output"}

SwapOps == DexOps \ {"create_exchange", "add_liquidity", "remove_liquidity"}

---------------------------------------------------------------------------
(* C1 *)

\* C1: for every asset id, total_supply(id) equals the sum over all accounts
\* of balances(id, account), in every reachable state, after successful and
\* after failed calls alike.
SupplyIsSumOfBalances ==
    \A id \in AssetIds : TotalSupply[id] = SumOfBalances(id)

\* a failed add_liquidity has left the liquidity it minted behind
SupplyAfterFailedProvision ==
    /\ last.op = "add_liquidity"
    /\ last.res = "AllowanceLow"
    /\ \E e \in DOMAIN Exchanges :
        /\ TotalSupply[Exchanges[e].liquidity_id] > 0
        /\ \E a \in Users : Balances[<<Exchanges[e].liquidity_id, a>>] > 0

---------------------------------------------------------------------------
(* C2 *)

\* C2: every swap-engine dispatchable is all-or-nothing: when it returns an
\* error, every ledger balance, allowance, total supply, currency balance and
\* registry entry equals its pre-call value and no event is emitted.
DexAllOrNothing ==
    [][(last'.op \in DexOps /\ last'.res # "Ok")
        => (UNCHANGED StorageVars /\ Events' = << >>)]_vars

---------------------------------------------------------------------------
(* C3 *)

\* C3: a transfer_from that passes the allowance check and whose inner
\* transfer fails with AmountZero or BalanceLow is rolled back: every
\* allowance and every balance is the same as before the call.
TransferFromRolledBack ==
    [][(last'.op = "transfer_from" /\ last'.res \in {"AmountZero", "BalanceLow"})
        => UNCHANGED <<Allowances, Balances>>]_vars

---------------------------------------------------------------------------
(* C4 *)

\* currency_reserve * token_reserve of an exchange, in storage record s
ReserveProduct(s, e) ==
    get_currency_reserve(s, s.Exchanges[e]) * get_token_reserve(s, s.Exchanges[e])

\* the storage after the step
StorageNext ==
    [AssetInfos |-> AssetInfos', Balances |-> Balances', NextAssetId |-> NextAssetId',
     TotalSupply |-> TotalSupply', Allowances |-> Allowances',
     TokenToExchange |-> TokenToExchange', Exchanges |-> Exchanges',
     NextExchangeId |-> NextExchangeId', FreeBalance |-> FreeBalance',
     Events |-> << >>]

\* C4: constant-product monotonicity: after every successful swap, one-hop or
\* two-hop (the two exchanges being the same one included), the product
\* currency_reserve * token_reserve of every exchange is at least its
\* pre-swap value.
ConstantProductMonotone ==
    [][(last'.op \in SwapOps /\ last'.res = "Ok")
        => \A e \in DOMAIN Exchanges :
              ReserveProduct(StorageNext, e) >= ReserveProduct(Storage, e)]_vars

---------------------------------------------------------------------------
(* C5 *)

\* C5: a successful transfer(caller, id, target, amount) with target # caller
\* decreases balances[(id, caller)] by exactly amount, increases
\* balances[(id, target)] by exactly amount, and leaves every other balance,
\* every allowance, every total supply, asset info and next_asset_id unchanged.
TransferEffect ==
    Dispatching =>
    \A caller \in Users, id \in AssetIds, target \in Accounts, amount \in Amounts :
        LET r == transfer(Storage, Signed(caller), id, target, amount)
        IN  (r.res = "Ok" /\ target # caller) =>
                /\ r.s.Balances[<<id, caller>>] = Balances[<<id, caller>>] - amount
                /\ r.s.Balances[<<id, target>>] = Balances[<<id, target>>] + amount
                /\ DOMAIN r.s.Balances = DOMAIN Balances
                /\ \A k \in DOMAIN Balances \ {<<id, caller>>, <<id, target>>} :
                        r.s.Balances[k] = Balances[k]
                /\ r.s.Allowances = Allowances
                /\ r.s.TotalSupply = TotalSupply
                /\ r.s.AssetInfos = AssetInfos
                /\ r.s.NextAssetId = NextAssetId

\* a transfer to another account has succeeded and the target holds the amount
TransferredToAnother ==
    /\ last.op = "transfer"
    /\ last.res = "Ok"
    /\ last.args[3] # last.args[1][1]
    /\ Balances[<<last.args[2], last.args[3]>>] >= last.args[4]
    /\ Events = <<<<"Transferred", last.args[2], last.args[1][1], last.args[3], last.args[4]>>>>

---------------------------------------------------------------------------
(* C6 *)

\* C6: ledger validation failures leave the state unchanged and emit no
\* event: transfer fails with AmountZero when amount = 0 and with BalanceLow
\* when balances[(id, caller)] < amount; transfer_from fails with AllowanceLow
\* when allowances[(id, owner, caller)] < amount.
LedgerValidationFailures ==
    Dispatching =>
    \A caller \in Users, id \in AssetIds, owner \in Accounts, target \in Accounts,
       amount \in Amounts :
            /\ amount = 0 =>
                transfer(Storage, Signed(caller), id, target, amount)
                    = [s |-> Storage, res |-> "AmountZero"]
            /\ Balances[<<id, caller>>] < amount =>
                transfer(Storage, Signed(caller), id, target, amount)
                    = [s |-> Storage, res |-> "BalanceLow"]
            /\ Allowances[<<id, owner, caller>>] < amount =>
                transfer_from(Storage, Signed(caller), id, owner, target, amount)
                    = [s |-> Storage, res |-> "AllowanceLow"]

\* a transfer_from beyond the allowance has been rejected on a ledger that
\* holds balances and allowances
RejectedBeyondAllowance ==
    /\ last.op = "transfer_from"
    /\ last.res = "AllowanceLow"
    /\ Events = << >>
    /\ \E k \in DOMAIN Balances : Balances[k] > 0
    /\ \E k \in DOMAIN Allowances : Allowances[k] > 0

---------------------------------------------------------------------------
(* C7 *)

\* C7: allow is an overwrite that always succeeds for a signed caller: after
\* allow(caller, id, spender, v) the allowance (id, caller, spender) is v
\* whatever it was before and whatever the caller's balance is; all balances,
\* total supplies and all other allowance entries are unchanged.
AllowOverwrites ==
    Dispatching =>
    \A caller \in Users, id \in AssetIds, spender \in Accounts, v \in Amounts :
        LET r == allow(Storage, Signed(caller), id, spender, v)
        IN      /\ r.res = "Ok"
                /\ r.s.Allowances[<<id, caller, spender>>] = v
                /\ DOMAIN r.s.Allowances = DOMAIN Allowances
                /\ \A k \in DOMAIN Allowances \ {<<id, caller, spender>>} :
                        r.s.Allowances[k] = Allowances[k]
                /\ r.s.Balances = Balances
                /\ r.s.TotalSupply = TotalSupply

\* an allowance above the caller's balance has been set
AllowedBeyondBalance ==
    /\ last.op = "allow"
    /\ last.res = "Ok"
    /\ last.args[4] > Balances[<<last.args[2], last.args[1][1]>>]
    /\ Allowances[<<last.args[2], last.args[1][1], last.args[3]>>] = last.args[4]

---------------------------------------------------------------------------
(* C8 *)

\* C8: a successful transfer_from(spender, id, owner, target, amount)
\* decreases allowances[(id, owner, spender)] by exactly amount, decreases
\* balances[(id, owner)] by amount, increases balances[(id, target)] by
\* amount, and leaves the spender's own balance of id unchanged when the
\* spender is neither owner nor target.
TransferFromEffect ==
    Dispatching =>
    \A spender \in Users, id \in AssetIds, owner \in Accounts, target \in Accounts,
       amount \in Amounts :
        LET r == transfer_from(Storage, Signed(spender), id, owner, target, amount)
            debited == [Balances EXCEPT ![<<id, owner>>] = @ - amount]
        IN  r.res = "Ok" =>
                /\ r.s.Allowances[<<id, owner, spender>>]
                        = Allowances[<<id, owner, spender>>] - amount
                /\ r.s.Balances = [debited EXCEPT ![<<id, target>>] = @ + amount]
                /\ spender \notin {owner, target} =>
                        r.s.Balances[<<id, spender>>] = Balances[<<id, spender>>]

\* a spender that is neither owner nor target has moved an amount
SpentByThirdParty ==
    /\ last.op = "transfer_from"
    /\ last.res = "Ok"
    /\ last.args[1][1] \notin {last.args[3], last.args[4]}
    /\ last.args[3] # last.args[4]
    /\ last.args[5] > 0
    /\ Balances[<<last.args[2], last.args[4]>>] >= last.args[5]

---------------------------------------------------------------------------
(* C9 *)

\* C9: issue(caller, total, info) assigns id = the pre-call next_asset_id,
\* increases next_asset_id by exactly one, sets balances[(id, caller)] = total,
\* total_supply[id] = total and asset_info[id] = info, and changes no balance,
\* supply, metadata or allowance of a previously issued asset; the first issue
\* on an empty ledger returns id 0.
IssueEffect ==
    (Dispatching /\ NextAssetId < MaxAssets) =>
    \A caller \in Users, total \in IssueTotals :
        LET r == issue(Storage, Signed(caller), total, TEST_TOKEN)
            id == NextAssetId
        IN      /\ r.res = "Ok"
                /\ r.s.Events = <<<<"Issued", id, caller, total>>>>
                /\ r.s.NextAssetId = NextAssetId + 1
                /\ r.s.Balances[<<id, caller>>] = total
                /\ r.s.TotalSupply[id] = total
                /\ asset_info(r.s, id) = {TEST_TOKEN}
                /\ \A a \in 0 .. (NextAssetId - 1) :
                    /\ \A who \in Accounts : r.s.Balances[<<a, who>>] = Balances[<<a, who>>]
                    /\ r.s.TotalSupply[a] = TotalSupply[a]
                    /\ asset_info(r.s, a) = asset_info(Storage, a)
                    /\ \A o \in Accounts, sp \in Accounts :
                            r.s.Allowances[<<a, o, sp>>] = Allowances[<<a, o, sp>>]
                /\ DOMAIN AssetInfos = {} => id = 0

\* a second asset has been issued next to an earlier one that is still held
IssuedNextToEarlier ==
    /\ last.op = "issue"
    /\ last.res = "Ok"
    /\ Events = <<<<"Issued", 1, last.args[1][1], last.args[2]>>>>
    /\ last.args[2] > 0
    /\ NextAssetId = 2
    /\ TotalSupply[0] > 0
    /\ TotalSupply[1] = last.args[2]

---------------------------------------------------------------------------
(* C10 *)

\* what a successful create_exchange(token_id) does to the registry and to
\* the liquidity asset
ExchangeCreated(token_id) ==
    LET pool_id == NextExchangeId
        liquidity_id == NextAssetId
        account == into_sub_account(pool_id)
    IN  /\ NextExchangeId' = NextExchangeId + 1
        /\ NextAssetId' = NextAssetId + 1
        /\ liquidity_id \in DOMAIN AssetInfos'
        /\ TotalSupply'[liquidity_id] = 0
        /\ Exchanges' = Insert(Exchanges, pool_id,
                               [token_id |-> token_id, liquidity_id |-> liquidity_id,
                                account |-> account])
        /\ TokenToExchange' = Insert(TokenToExchange, token_id, pool_id)
        /\ Balances'[<<liquidity_id, account>>] = 0
        /\ (NextAssetId = 1 /\ token_id = 0) => (pool_id = 0 /\ liquidity_id = 1)

---------------------------------------------------------------------------
(* C11 *)

\* C11: create_exchange(token_id) fails with TokenNotExists when
\* asset_info[token_id] is absent and with ExchangeAlreadyExists when
\* token_to_exchange[token_id] is set; in both cases nothing is stored: no
\* exchange record, no liquidity asset, next_exchange_id and next_asset_id as
\* they were.
CreateExchangeRejects ==
    Dispatching =>
    \A origin \in Origins, token_id \in AssetIds :
        /\ asset_info(Storage, token_id) = {} =>
            create_exchange(Storage, origin, token_id)
                = [s |-> Storage, res |-> "TokenNotExists"]
        /\ token_id \in DOMAIN TokenToExchange =>
            create_exchange(Storage, origin, token_id)
                = [s |-> Storage, res |-> "ExchangeAlreadyExists"]

\* a second exchange of a token that has one has been refused
SecondExchangeRefused ==
    /\ last.op = "create_exchange"
    /\ last.res = "ExchangeAlreadyExists"
    /\ Events = << >>
    /\ DOMAIN TokenToExchange # {}
    /\ NextExchangeId = Cardinality(DOMAIN Exchanges)

---------------------------------------------------------------------------
(* C12 *)

\* C12: create_exchange is rejected when token_id is the liquidity asset of
\* an exchange: in no reachable state does an exchange exist whose token_id is
\* a liquidity asset.
NoExchangeOfLiquidityAsset ==
    \A e \in DOMAIN Exchanges, f \in DOMAIN Exchanges :
        Exchanges[e].token_id # Exchanges[f].liquidity_id

---------------------------------------------------------------------------
(* C13 *)

\* the registry in one state: a record for exactly the ids below
\* next_exchange_id, token_to_exchange the inverse of the records' token_id,
\* and distinct accounts for distinct exchanges
RegistryShape ==
    /\ DOMAIN Exchanges = 0 .. (NextExchangeId - 1)
    /\ \A t \in AssetIds, e \in ExchangeIds :
        (t \in DOMAIN TokenToExchange /\ TokenToExchange[t] = e)
            <=> (e \in DOMAIN Exchanges /\ Exchanges[e].token_id = t)
    /\ \A e \in DOMAIN Exchanges, f \in DOMAIN Exchanges :
        e # f => Exchanges[e].account # Exchanges[f].account

\* the registry over one step: a stored record stays, unchanged
RegistryKept ==
    \A e \in DOMAIN Exchanges :
        e \in DOMAIN Exchanges' /\ Exchanges'[e] = Exchanges[e]

\* C13: in every reachable state exchanges[p] is defined exactly for
\* p < next_exchange_id, token_to_exchange[t] = p if and only if
\* exchanges[p].token_id = t, distinct exchanges have distinct accounts; and a
\* stored record is never changed or removed by a later operation.
PoolRegistry == [](RegistryShape) /\ [][RegistryKept]_vars

\* a second exchange has been created next to the first
TwoExchangesRegistered ==
    /\ last.op = "create_exchange"
    /\ last.res = "Ok"
    /\ NextExchangeId = 2
    /\ Exchanges[0].token_id # Exchanges[1].token_id

---------------------------------------------------------------------------
(* C14 *)

\* C14: every swap-engine operation, create_exchange included, requires a
\* signed origin: called with an unsigned origin it fails with BadOrigin and
\* changes no state.  (A call that wrote to storage carries its arguments,
\* the origin first.)
DexRequiresSignedOrigin ==
    [][(last'.op \in DexOps /\ last'.args # << >> /\ last'.args[1] = RawNone)
        => (last'.res = "BadOrigin" /\ UNCHANGED StorageVars)]_vars

---------------------------------------------------------------------------
(* C15 *)

\* C15: a successful add_liquidity on an exchange whose liquidity supply is 0
\* pulls exactly max_tokens tokens from the caller to the exchange account
\* (the caller's allowance to the exchange account drops by max_tokens),
\* moves exactly currency_amount currency from the caller to the exchange
\* account, and mints to the caller the free currency balance of the exchange
\* account after that transfer; with no currency in the exchange account
\* before, total_supply = balance(liquidity, caller) = currency_amount.
\* min_liquidity plays no part.
FirstProvision ==
    Dispatching =>
    \A who \in Users, exchange_id \in DOMAIN Exchanges, currency_amount \in Amounts,
       min_liquidity \in Amounts, max_tokens \in Amounts :
        LET exchange == Exchanges[exchange_id]
            token == exchange.token_id
            liquidity == exchange.liquidity_id
            r == add_liquidity(Storage, now, Signed(who), exchange_id, currency_amount,
                               min_liquidity, max_tokens, now + 1)
            minted == r.s.FreeBalance[exchange.account]
            pulled == [Balances EXCEPT ![<<token, who>>] = @ - max_tokens]
            pooled == [pulled EXCEPT ![<<token, exchange.account>>] = @ + max_tokens]
            paid == [FreeBalance EXCEPT ![who] = @ - currency_amount]
        IN  (TotalSupply[liquidity] = 0 /\ r.res = "Ok") =>
                /\ r.s.Balances = [pooled EXCEPT ![<<liquidity, who>>] = @ + minted]
                /\ r.s.Allowances
                    = [Allowances EXCEPT ![<<token, who, exchange.account>>] = @ - max_tokens]
                /\ r.s.FreeBalance
                    = [paid EXCEPT ![exchange.account] = @ + currency_amount]
                /\ r.s.TotalSupply = [TotalSupply EXCEPT ![liquidity] = minted]
                /\ FreeBalance[exchange.account] = 0 =>
                    /\ r.s.TotalSupply[liquidity] = currency_amount
                    /\ r.s.Balances[<<liquidity, who>>] = currency_amount
                /\ \A m \in Amounts :
                    add_liquidity(Storage, now, Signed(who), exchange_id, currency_amount,
                                  m, max_tokens, now + 1) = r

\* an emptied exchange has been provisioned anew, with a min_liquidity above
\* the shares minted
ProvisionedAnew ==
    /\ last.op = "add_liquidity"
    /\ last.res = "Ok"
    /\ LET exchange == Exchanges[last.args[2]]
       IN  /\ TotalSupply[exchange.liquidity_id] = last.args[3]
           /\ FreeBalance[exchange.account] = last.args[3]
           /\ Balances[<<exchange.token_id, exchange.account>>] = last.args[5]
           /\ last.args[4] > last.args[3]

---------------------------------------------------------------------------
(* C16 *)

\* C16: on an exchange with liquidity supply L > 0, currency reserve CR and
\* token reserve TR (read before the call's transfers), a successful
\* add_liquidity mints exactly floor(currency_amount * L / CR) shares to the
\* caller, moves exactly currency_amount currency and
\* token_amount = floor(currency_amount * TR / CR) tokens from the caller to
\* the exchange account, raises the liquidity supply by the minted amount and
\* leaves the exchange account's own share balance unchanged.
LaterProvision ==
    Dispatching =>
    \A who \in Users, exchange_id \in DOMAIN Exchanges, currency_amount \in Amounts,
       min_liquidity \in Amounts, max_tokens \in Amounts :
        LET exchange == Exchanges[exchange_id]
            token == exchange.token_id
            liquidity == exchange.liquidity_id
            L == TotalSupply[liquidity]
            CR == FreeBalance[exchange.account]
            TR == Balances[<<token, exchange.account>>]
            r == add_liquidity(Storage, now, Signed(who), exchange_id, currency_amount,
                               min_liquidity, max_tokens, now + 1)
        IN  (L > 0 /\ r.res = "Ok") =>
                LET minted == (currency_amount * L) \div CR
                    token_amount == (currency_amount * TR) \div CR
                    pulled == [Balances EXCEPT ![<<token, who>>] = @ - token_amount]
                    pooled == [pulled EXCEPT ![<<token, exchange.account>>] = @ + token_amount]
                    paid == [FreeBalance EXCEPT ![who] = @ - currency_amount]
                IN  /\ r.s.Balances = [pooled EXCEPT ![<<liquidity, who>>] = @ + minted]
                    /\ r.s.FreeBalance
                        = [paid EXCEPT ![exchange.account] = @ + currency_amount]
                    /\ r.s.TotalSupply = [TotalSupply EXCEPT ![liquidity] = L + minted]
                    /\ r.s.Balances[<<liquidity, exchange.account>>]
                        = Balances[<<liquidity, exchange.account>>]

\* an exchange that had liquidity has been provisioned: its supply exceeds
\* what a first provision of the same currency amount mints
ProvisionedFurther ==
    /\ last.op = "add_liquidity"
    /\ last.res = "Ok"
    /\ LET exchange == Exchanges[last.args[2]]
       IN  /\ TotalSupply[exchange.liquidity_id] > last.args[3]
           /\ FreeBalance[exchange.account] > last.args[3]
           /\ Balances[<<exchange.token_id, exchange.account>>] > last.args[5]

---------------------------------------------------------------------------
(* C17 *)

AddLiquidityErrors ==
    {"ZeroCurrency", "ZeroTokens", "ExchangeNotExists", "RequestedZeroLiquidity",
     "TooManyTokens", "TooLowLiquidity"}

\* C17: add_liquidity (signed, deadline ahead) fails with ZeroTokens if
\* max_tokens = 0, with ZeroCurrency if currency_amount = 0, with
\* ExchangeNotExists if the exchange is missing, and on an exchange with
\* liquidity supply L > 0 with RequestedZeroLiquidity if min_liquidity = 0,
\* with TooManyTokens if token_amount > max_tokens and with TooLowLiquidity
\* if liquidity_minted < min_liquidity (an equal amount is accepted); the
\* first check that fails, in this order, names the error, and each of these
\* failures leaves all state unchanged.
AddLiquidityValidation ==
    Dispatching =>
    \A who \in Users, exchange_id \in ExchangeIds, currency_amount \in Amounts,
       min_liquidity \in Amounts, max_tokens \in Amounts :
        LET r == add_liquidity(Storage, now, Signed(who), exchange_id, currency_amount,
                               min_liquidity, max_tokens, now + 1)
            exists == exchange_id \in DOMAIN Exchanges
            exchange == Exchanges[exchange_id]
            L == TotalSupply[exchange.liquidity_id]
            CR == FreeBalance[exchange.account]
            TR == Balances[<<exchange.token_id, exchange.account>>]
            token_amount == (currency_amount * TR) \div CR
            liquidity_minted == (currency_amount * L) \div CR
            checked == max_tokens > 0 /\ currency_amount > 0 /\ exists /\ L > 0
            priced == checked /\ min_liquidity > 0 /\ CR > 0
        IN  /\ max_tokens = 0 => r.res = "ZeroTokens"
            /\ (currency_amount = 0 /\ max_tokens > 0) => r.res = "ZeroCurrency"
            /\ (~exists /\ max_tokens > 0 /\ currency_amount > 0)
                    => r.res = "ExchangeNotExists"
            /\ (checked /\ min_liquidity = 0) => r.res = "RequestedZeroLiquidity"
            /\ (priced /\ token_amount > max_tokens) => r.res = "TooManyTokens"
            /\ (priced /\ token_amount <= max_tokens /\ liquidity_minted < min_liquidity)
                    => r.res = "TooLowLiquidity"
            /\ (priced /\ liquidity_minted >= min_liquidity) => r.res # "TooLowLiquidity"
            /\ r.res \in AddLiquidityErrors => r.s = Storage

\* a provision has been refused for minting less than min_liquidity, and one
\* minting exactly min_liquidity is possible in the same state
ProvisionTooLow ==
    /\ last.op = "add_liquidity"
    /\ last.res = "TooLowLiquidity"
    /\ Events = << >>
    /\ \E exchange_id \in DOMAIN Exchanges :
        /\ TotalSupply[Exchanges[exchange_id].liquidity_id] > 0
        /\ \E who \in Users, c \in Amounts, m \in Amounts, t \in Amounts :
            /\ add_liquidity(Storage, now, Signed(who), exchange_id, c, m, t, now + 1).res = "Ok"
            /\ m = (c * TotalSupply[Exchanges[exchange_id].liquidity_id])
                        \div FreeBalance[Exchanges[exchange_id].account]

---------------------------------------------------------------------------
(* C18 *)

\* C18: on an exchange with liquidity supply L, currency reserve CR and token
\* reserve TR, a successful remove_liquidity(shares) burns exactly shares
\* from the caller (the liquidity supply drops by shares) and pays the caller
\* floor(shares * CR / L) currency and floor(shares * TR / L) tokens out of
\* the exchange account; removing all outstanding shares leaves the supply
\* and both reserves at zero.
RemoveLiquidityEffect ==
    Dispatching =>
    \A who \in Users, exchange_id \in DOMAIN Exchanges, shares \in Amounts,
       min_currency \in Amounts, min_tokens \in Amounts :
        LET exchange == Exchanges[exchange_id]
            token == exchange.token_id
            liquidity == exchange.liquidity_id
            L == TotalSupply[liquidity]
            CR == FreeBalance[exchange.account]
            TR == Balances[<<token, exchange.account>>]
            r == remove_liquidity(Storage, now, Signed(who), exchange_id, shares,
                                  min_currency, min_tokens, now + 1)
        IN  r.res = "Ok" =>
                LET currency_out == (shares * CR) \div L
                    token_out == (shares * TR) \div L
                    burnt == [Balances EXCEPT ![<<liquidity, who>>] = @ - shares]
                    taken == [burnt EXCEPT ![<<token, exchange.account>>] = @ - token_out]
                    drawn == [FreeBalance EXCEPT ![exchange.account] = @ - currency_out]
                IN  /\ r.s.Balances = [taken EXCEPT ![<<token, who>>] = @ + token_out]
                    /\ r.s.TotalSupply = [TotalSupply EXCEPT ![liquidity] = L - shares]
                    /\ r.s.FreeBalance = [drawn EXCEPT ![who] = @ + currency_out]
                    /\ shares = L =>
                        /\ r.s.TotalSupply[liquidity] = 0
                        /\ r.s.FreeBalance[exchange.account] = 0
                        /\ r.s.Balances[<<token, exchange.account>>] = 0

\* all outstanding shares of an exchange have been removed and paid out
RemovedAllShares ==
    /\ last.op = "remove_liquidity"
    /\ last.res = "Ok"
    /\ LET exchange == Exchanges[last.args[2]]
           who == last.args[1][1]
       IN  /\ TotalSupply[exchange.liquidity_id] = 0
           /\ FreeBalance[exchange.account] = 0
           /\ Balances[<<exchange.token_id, exchange.account>>] = 0
           /\ Balances[<<exchange.token_id, who>>] = IssueTotal
           /\ FreeBalance[who] = Endowment

---------------------------------------------------------------------------
(* C19 *)

RemoveLiquidityErrors ==
    {"BurnZeroShares", "ExchangeNotExists", "NoLiquidity", "NotEnoughCurrency",
     "NotEnoughTokens", "BalanceLow"}

\* C19: remove_liquidity (signed, deadline ahead) fails with BurnZeroShares
\* if shares = 0, with ExchangeNotExists if the exchange is missing, with
\* NoLiquidity if the liquidity supply is 0, with NotEnoughCurrency if
\* currency_out < min_currency, with NotEnoughTokens if token_out <
\* min_tokens, and with BalanceLow if the caller holds fewer than shares
\* liquidity; the first check that fails, in this order, names the error, and
\* each of these failures leaves the caller's liquidity balance, the
\* liquidity supply and both reserves unchanged.
RemoveLiquidityValidation ==
    Dispatching =>
    \A who \in Users, exchange_id \in ExchangeIds, shares \in Amounts,
       min_currency \in Amounts, min_tokens \in Amounts :
        LET r == remove_liquidity(Storage, now, Signed(who), exchange_id, shares,
                                  min_currency, min_tokens, now + 1)
            exists == exchange_id \in DOMAIN Exchanges
            exchange == Exchanges[exchange_id]
            token == exchange.token_id
            liquidity == exchange.liquidity_id
            L == TotalSupply[liquidity]
            CR == FreeBalance[exchange.account]
            TR == Balances[<<token, exchange.account>>]
            currency_out == (shares * CR) \div L
            token_out == (shares * TR) \div L
            priced == shares > 0 /\ exists /\ L > 0
        IN  /\ shares = 0 => r.res = "BurnZeroShares"
            /\ (shares > 0 /\ ~exists) => r.res = "ExchangeNotExists"
            /\ (shares > 0 /\ exists /\ L = 0) => r.res = "NoLiquidity"
            /\ (priced /\ currency_out < min_currency) => r.res = "NotEnoughCurrency"
            /\ (priced /\ currency_out >= min_currency /\ token_out < min_tokens)
                    => r.res = "NotEnoughTokens"
            /\ (priced /\ currency_out >= min_currency /\ token_out >= min_tokens
                    /\ Balances[<<liquidity, who>>] < shares) => r.res = "BalanceLow"
            /\ r.res \in RemoveLiquidityErrors =>
                /\ r.s.FreeBalance = FreeBalance
                /\ exists =>
                    /\ r.s.Balances[<<liquidity, who>>] = Balances[<<liquidity, who>>]
                    /\ r.s.TotalSupply[liquidity] = L
                    /\ r.s.Balances[<<token, exchange.account>>] = TR
            /\ r.res \notin RemoveLiquidityErrors =>
                (priced /\ Balances[<<liquidity, who>>] >= shares)

\* a caller holding no shares of a provisioned exchange has been refused
RemovalBeyondShares ==
    /\ last.op = "remove_liquidity"
    /\ last.res = "BalanceLow"
    /\ Events = << >>
    /\ \E exchange_id \in DOMAIN Exchanges, who \in Users :
        /\ TotalSupply[Exchanges[exchange_id].liquidity_id] > 0
        /\ Balances[<<Exchanges[exchange_id].liquidity_id, who>>] = 0
        /\ remove_liquidity(Storage, now, Signed(who), exchange_id, 1, 0, 0, now + 1).res
                = "BalanceLow"

---------------------------------------------------------------------------
(* C20 *)

\* C20: with currency reserve CR and token reserve TR, a successful
\* currency_to_tokens_input debits exactly currency_sold currency from the
\* caller to the exchange account and credits
\* get_input_price(currency_sold, CR, TR) tokens from the exchange account to
\* the recipient, and fails with NotEnoughTokens when that amount is below
\* min_tokens; a successful currency_to_tokens_output credits exactly
\* tokens_bought tokens to the recipient and debits
\* get_output_price(tokens_bought, CR, TR) currency from the caller, and
\* fails with TooExpensiveCurrency when that cost exceeds max_currency.
\* Neither changes an allowance or a total supply.
CurrencyToTokens ==
    Dispatching =>
    \A buyer \in Users, exchange_id \in DOMAIN Exchanges, amount \in Amounts \ {0},
       limit \in Amounts \ {0}, recipient \in Accounts :
        LET exchange == Exchanges[exchange_id]
            token == exchange.token_id
            CR == FreeBalance[exchange.account]
            TR == Balances[<<token, exchange.account>>]
            in == currency_to_tokens_input(Storage, now, overflow_checks, Signed(buyer),
                        exchange_id, amount, limit, now + 1, recipient)
            out == currency_to_tokens_output(Storage, now, overflow_checks, Signed(buyer),
                        exchange_id, amount, limit, now + 1, recipient)
            tokens_bought == get_input_price(amount, CR, TR)
            currency_sold == get_output_price(amount, CR, TR)
            Moved(currency, tokens) ==
                LET paid == [FreeBalance EXCEPT ![buyer] = @ - currency]
                    taken == [Balances EXCEPT ![<<token, exchange.account>>] = @ - tokens]
                IN  [Storage EXCEPT
                        !.FreeBalance = [paid EXCEPT ![exchange.account] = @ + currency],
                        !.Balances = [taken EXCEPT ![<<token, recipient>>] = @ + tokens]]
        IN  /\ in.res = "Ok" => [in.s EXCEPT !.Events = << >>] = Moved(amount, tokens_bought)
            /\ (~get_input_price_panics(amount, CR, TR) /\ tokens_bought < limit)
                    => in = [s |-> Storage, res |-> "NotEnoughTokens"]
            /\ out.res = "Ok" => [out.s EXCEPT !.Events = << >>] = Moved(currency_sold, amount)
            /\ (amount < TR /\ currency_sold > limit)
                    => out = [s |-> Storage, res |-> "TooExpensiveCurrency"]
            /\ in.s.Allowances = Allowances /\ in.s.TotalSupply = TotalSupply
            /\ out.s.Allowances = Allowances /\ out.s.TotalSupply = TotalSupply

\* currency has been sold for tokens credited to another account than the
\* buyer's
BoughtForRecipient ==
    /\ last.op = "currency_to_tokens_input"
    /\ last.res = "Ok"
    /\ last.args[6] # last.args[1][1]
    /\ last.args[6] \in Users
    /\ Balances[<<Exchanges[last.args[2]].token_id, last.args[6]>>] > 0
    /\ FreeBalance[last.args[1][1]] = Endowment - last.args[3]

---------------------------------------------------------------------------
(* C21 *)

\* C21: with token reserve TR and currency reserve CR, a successful
\* tokens_to_currency_input pulls exactly tokens_sold tokens from the caller
\* into the exchange account by delegated transfer (the caller's allowance to
\* the exchange account drops by tokens_sold) and pays
\* get_input_price(tokens_sold, TR, CR) currency from the exchange account to
\* the recipient; it fails with NotEnoughCurrency when that amount is below
\* min_currency and with AllowanceLow when the caller's allowance to the
\* exchange account is below tokens_sold.
TokensToCurrencyInput ==
    Dispatching =>
    \A buyer \in Users, exchange_id \in DOMAIN Exchanges, tokens_sold \in Amounts \ {0},
       min_currency \in Amounts \ {0}, recipient \in Accounts :
        LET exchange == Exchanges[exchange_id]
            token == exchange.token_id
            CR == FreeBalance[exchange.account]
            TR == Balances[<<token, exchange.account>>]
            r == tokens_to_currency_input(Storage, now, overflow_checks, Signed(buyer),
                        exchange_id, tokens_sold, min_currency, now + 1, recipient)
            currency_bought == get_input_price(tokens_sold, TR, CR)
            drawn == [FreeBalance EXCEPT ![exchange.account] = @ - currency_bought]
            pulled == [Balances EXCEPT ![<<token, buyer>>] = @ - tokens_sold]
        IN  /\ r.res = "Ok" =>
                [r.s EXCEPT !.Events = << >>] =
                    [Storage EXCEPT
                        !.FreeBalance = [drawn EXCEPT ![recipient] = @ + currency_bought],
                        !.Balances = [pulled EXCEPT ![<<token, exchange.account>>] = @ + tokens_sold],
                        !.Allowances = [Allowances EXCEPT
                            ![<<token, buyer, exchange.account>>] = @ - tokens_sold]]
            /\ currency_bought < min_currency
                    => r = [s |-> Storage, res |-> "NotEnoughCurrency"]
            /\ (currency_bought >= min_currency
                    /\ Allowances[<<token, buyer, exchange.account>>] < tokens_sold)
                    => r.res = "AllowanceLow"

\* tokens have been sold for currency paid to another user than the seller,
\* out of the seller's allowance to the exchange account
SoldForRecipient ==
    /\ last.op = "tokens_to_currency_input"
    /\ last.res = "Ok"
    /\ last.args[6] \in Users \ {last.args[1][1]}
    /\ FreeBalance[last.args[6]] > Endowment
    /\ Allowances[<<Exchanges[last.args[2]].token_id, last.args[1][1],
                    Exchanges[last.args[2]].account>>] = IssueTotal - 1 - last.args[3]

---------------------------------------------------------------------------
(* C22 *)

\* C22: in a successful tokens_to_currency_output with recipient # caller,
\* the tokens_sold = get_output_price(currency_bought, TR, CR) tokens are
\* debited from the caller's token balance, drawing down the caller's
\* allowance to the exchange account, and the currency_bought currency is
\* credited to the recipient; the recipient's token balance and allowance and
\* the caller's currency balance are unchanged.
TokensToCurrencyOutputBySeller ==
    Dispatching =>
    \A buyer \in Users, exchange_id \in DOMAIN Exchanges, currency_bought \in Amounts \ {0},
       max_tokens \in Amounts \ {0} :
    \A recipient \in Users \ {buyer} :
        LET exchange == Exchanges[exchange_id]
            token == exchange.token_id
            CR == FreeBalance[exchange.account]
            TR == Balances[<<token, exchange.account>>]
            r == tokens_to_currency_output(Storage, now, overflow_checks, Signed(buyer),
                        exchange_id, currency_bought, max_tokens, now + 1, recipient)
            tokens_sold == get_output_price(currency_bought, TR, CR)
        IN  r.res = "Ok" =>
                /\ r.s.Balances[<<token, buyer>>] = Balances[<<token, buyer>>] - tokens_sold
                /\ r.s.Allowances[<<token, buyer, exchange.account>>]
                        = Allowances[<<token, buyer, exchange.account>>] - tokens_sold
                /\ r.s.FreeBalance[recipient] = FreeBalance[recipient] + currency_bought
                /\ r.s.Balances[<<token, recipient>>] = Balances[<<token, recipient>>]
                /\ r.s.Allowances[<<token, recipient, exchange.account>>]
                        = Allowances[<<token, recipient, exchange.account>>]
                /\ r.s.FreeBalance[buyer] = FreeBalance[buyer]

---------------------------------------------------------------------------
(* C23 *)

\* what token_to_token_input does but for the recipient's currency balance:
\* ExchangeNotExists if either exchange is missing; on success tokens_sold of
\* exchange A's token pulled from the caller by delegated transfer,
\* dc = get_input_price(tokens_sold, TR_A, CR_A) currency moved from A's
\* account to B's account, get_input_price(dc, CR_B, TR_B) of B's token paid
\* from B's account to the recipient; NotEnoughTokens if that is below
\* min_other_tokens; the caller's currency balance unchanged
TokenToTokenInputEffect(recipients) ==
    \A buyer \in Users, exchange_id \in ExchangeIds, other_exchange_id \in ExchangeIds,
       tokens_sold \in Amounts \ {0}, min_other_tokens \in Amounts \ {0},
       recipient \in recipients :
        LET r == token_to_token_input(Storage, now, overflow_checks, Signed(buyer),
                        exchange_id, other_exchange_id, tokens_sold, min_other_tokens,
                        now + 1, recipient)
        IN  IF {exchange_id, other_exchange_id} \ DOMAIN Exchanges # {}
            THEN r = [s |-> Storage, res |-> "ExchangeNotExists"]
            ELSE
            LET A == Exchanges[exchange_id]
                B == Exchanges[other_exchange_id]
                dc == get_input_price(tokens_sold, Balances[<<A.token_id, A.account>>],
                                      FreeBalance[A.account])
                bought == get_input_price(dc, FreeBalance[B.account],
                                          Balances[<<B.token_id, B.account>>])
                b1 == [Balances EXCEPT ![<<A.token_id, buyer>>] = @ - tokens_sold]
                b2 == [b1 EXCEPT ![<<A.token_id, A.account>>] = @ + tokens_sold]
                b3 == [b2 EXCEPT ![<<B.token_id, B.account>>] = @ - bought]
                f1 == [FreeBalance EXCEPT ![A.account] = @ - dc]
            IN  /\ r.res = "Ok" =>
                    [r.s EXCEPT !.Events = << >>] =
                        [Storage EXCEPT
                            !.Balances = [b3 EXCEPT ![<<B.token_id, recipient>>] = @ + bought],
                            !.FreeBalance = [f1 EXCEPT ![B.account] = @ + dc],
                            !.Allowances = [Allowances EXCEPT
                                ![<<A.token_id, buyer, A.account>>] = @ - tokens_sold]]
                /\ (~get_input_price_panics(dc, FreeBalance[B.account],
                                             Balances[<<B.token_id, B.account>>])
                        /\ bought < min_other_tokens)
                        => r = [s |-> Storage, res |-> "NotEnoughTokens"]
                /\ r.s.FreeBalance[buyer] = FreeBalance[buyer]

\* C23 as stated: token_to_token_input fails with ExchangeNotExists if either
\* exchange is missing; on success it pulls tokens_sold from the caller into
\* A's account, moves dc from A's account to B's account and pays B's token
\* to the recipient, NotEnoughTokens below min_other_tokens; the currency
\* balances of the caller and of the recipient, whoever the recipient is, are
\* unchanged.
TokenToTokenInputAnyRecipient ==
    Dispatching =>
        /\ TokenToTokenInputEffect(Accounts)
        /\ \A buyer \in Users, exchange_id \in ExchangeIds, other_exchange_id \in ExchangeIds,
              tokens_sold \in Amounts \ {0}, min_other_tokens \in Amounts \ {0},
              recipient \in Accounts :
                LET r == token_to_token_input(Storage, now, overflow_checks, Signed(buyer),
                            exchange_id, other_exchange_id, tokens_sold, min_other_tokens,
                            now + 1, recipient)
                IN  r.res = "Ok" => r.s.FreeBalance[recipient] = FreeBalance[recipient]

\* C23, amended: as stated, the recipient's currency balance being unchanged
\* when the recipient is not the account of one of the two exchanges.
TokenToTokenInput ==
    Dispatching =>
        /\ TokenToTokenInputEffect(Accounts)
        /\ \A buyer \in Users, exchange_id \in DOMAIN Exchanges,
              other_exchange_id \in DOMAIN Exchanges,
              tokens_sold \in Amounts \ {0}, min_other_tokens \in Amounts \ {0} :
           \A recipient \in Accounts \ {Exchanges[exchange_id].account,
                                        Exchanges[other_exchange_id].account} :
                LET r == token_to_token_input(Storage, now, overflow_checks, Signed(buyer),
                            exchange_id, other_exchange_id, tokens_sold, min_other_tokens,
                            now + 1, recipient)
                IN  r.s.FreeBalance[recipient] = FreeBalance[recipient]

\* tokens of one exchange have been sold for tokens of another, the currency
\* passing between the two exchange accounts
SwappedAcrossExchanges ==
    /\ last.op = "token_to_token_input"
    /\ last.res = "Ok"
    /\ last.args[2] # last.args[3]
    /\ last.args[7] \in Users
    /\ Balances[<<Exchanges[last.args[3]].token_id, last.args[7]>>] > 0
    /\ FreeBalance[Exchanges[last.args[3]].account] = 2
    /\ FreeBalance[Exchanges[last.args[2]].account] = 1
    /\ FreeBalance[1] = Endowment - 2 /\ FreeBalance[2] = Endowment - 1

---------------------------------------------------------------------------
(* C24 *)

\* C24: a successful token_to_token_output delivers exactly
\* other_tokens_bought of exchange B's token to the recipient, moves
\* dc = get_output_price(other_tokens_bought, CR_B, TR_B) currency from A's
\* account to B's account, and pulls
\* tokens_sold = get_output_price(dc, TR_A, CR_A) of A's token from the
\* caller; it fails with TooExpensiveTokens when tokens_sold > max_tokens and
\* with ExchangeNotExists when either exchange is missing, and never changes
\* the caller's currency balance.
TokenToTokenOutput ==
    Dispatching =>
    \A buyer \in Users, exchange_id \in ExchangeIds, other_exchange_id \in ExchangeIds,
       other_tokens_bought \in Amounts \ {0}, max_tokens \in Amounts \ {0},
       recipient \in Accounts :
        LET r == token_to_token_output(Storage, now, overflow_checks, Signed(buyer),
                        exchange_id, other_exchange_id, other_tokens_bought, max_tokens,
                        now + 1, recipient)
        IN  IF {exchange_id, other_exchange_id} \ DOMAIN Exchanges # {}
            THEN r = [s |-> Storage, res |-> "ExchangeNotExists"]
            ELSE
            LET A == Exchanges[exchange_id]
                B == Exchanges[other_exchange_id]
                CR_A == FreeBalance[A.account]
                TR_B == Balances[<<B.token_id, B.account>>]
                dc == get_output_price(other_tokens_bought, FreeBalance[B.account], TR_B)
                tokens_sold == get_output_price(dc, Balances[<<A.token_id, A.account>>], CR_A)
                b1 == [Balances EXCEPT ![<<A.token_id, buyer>>] = @ - tokens_sold]
                b2 == [b1 EXCEPT ![<<A.token_id, A.account>>] = @ + tokens_sold]
                b3 == [b2 EXCEPT ![<<B.token_id, B.account>>] = @ - other_tokens_bought]
                f1 == [FreeBalance EXCEPT ![A.account] = @ - dc]
            IN  /\ r.res = "Ok" =>
                    [r.s EXCEPT !.Events = << >>] =
                        [Storage EXCEPT
                            !.Balances = [b3 EXCEPT
                                ![<<B.token_id, recipient>>] = @ + other_tokens_bought],
                            !.FreeBalance = [f1 EXCEPT ![B.account] = @ + dc],
                            !.Allowances = [Allowances EXCEPT
                                ![<<A.token_id, buyer, A.account>>] = @ - tokens_sold]]
                /\ (other_tokens_bought < TR_B /\ dc < CR_A /\ tokens_sold > max_tokens)
                        => r = [s |-> Storage, res |-> "TooExpensiveTokens"]
                /\ r.s.FreeBalance[buyer] = FreeBalance[buyer]

\* an exact amount of another exchange's token has been bought for a
\* recipient, paid in tokens pulled from the buyer
BoughtAcrossExchanges ==
    /\ last.op = "token_to_token_output"
    /\ last.res = "Ok"
    /\ last.args[2] # last.args[3]
    /\ last.args[7] \in Users \ {last.args[1][1]}
    /\ Balances[<<Exchanges[last.args[3]].token_id, last.args[7]>>]
            = IssueTotal - 3 + last.args[4]
    /\ Balances[<<Exchanges[last.args[2]].token_id, last.args[1][1]>>] = 1
    /\ FreeBalance[1] = Endowment - 2 /\ FreeBalance[2] = Endowment - 1

---------------------------------------------------------------------------
(* C25 *)

\* every exchange with liquidity has both reserves or neither
ReservesTogether ==
    \A e \in DOMAIN Exchanges :
        TotalSupply[Exchanges[e].liquidity_id] > 0 =>
            (Balances[<<Exchanges[e].token_id, Exchanges[e].account>>] > 0
                <=> FreeBalance[Exchanges[e].account] > 0)

\* C25: for every exchange with total_supply(liquidity_id) > 0,
\* token_reserve > 0 if and only if currency_reserve > 0, in every state
\* reached by add_liquidity, remove_liquidity and swap calls, successful or
\* failed: none of these calls leads from a state where this holds to one
\* where it does not.
ReservesStayTogether ==
    [][(last'.op \in DexOps \ {"create_exchange"} /\ ReservesTogether)
        => ReservesTogether']_vars

---------------------------------------------------------------------------
(* C26 *)

\* a round trip has been completed: the shares minted by a provision have
\* been removed by the same caller in the next call
RoundTripDone == last.op = "remove_liquidity" /\ last.res = "Ok"

---------------------------------------------------------------------------
(* C27 *)

\* an exact-out quote for x out of reserves a > 0, b > 0, with 0 < x < b
QuotedOutput ==
    /\ last.op = "get_output_price"
    /\ last.args[2] > 0 /\ last.args[3] > 0
    /\ 0 < last.args[1] /\ last.args[1] < last.args[3]

\* an exact-in quote for x > 0 into reserves a > 0, b > 0, returning less
\* than b
QuotedInput ==
    /\ last.op = "get_input_price"
    /\ last.args[2] > 0 /\ last.args[3] > 0
    /\ last.args[1] > 0
    /\ last.res < last.args[3]

\* C27 as stated: for reserves a > 0, b > 0 and 0 < x < b,
\* get_input_price(get_output_price(x, a, b), a, b) <= x; and for x > 0 with
\* get_input_price(x, a, b) < b,
\* get_output_price(get_input_price(x, a, b), a, b) >= x.
PricingRoundTripShrinks ==
    /\ QuotedOutput =>
        get_input_price(last.res, last.args[2], last.args[3]) <= last.args[1]
    /\ QuotedInput =>
        get_output_price(last.res, last.args[2], last.args[3]) >= last.args[1]

\* C27, amended: for reserves a > 0, b > 0 and 0 < x < b,
\* get_input_price(get_output_price(x, a, b), a, b) >= x; and for x > 0 with
\* get_input_price(x, a, b) < b,
\* get_output_price(get_input_price(x, a, b), a, b) <= x + 1.
PricingRoundTrip ==
    /\ QuotedOutput =>
        get_input_price(last.res, last.args[2], last.args[3]) >= last.args[1]
    /\ QuotedInput =>
        get_output_price(last.res, last.args[2], last.args[3]) <= last.args[1] + 1

\* the price quoted for an exact output buys more than that output
QuoteBuysMore ==
    /\ QuotedOutput
    /\ get_input_price(last.res, last.args[2], last.args[3]) > last.args[1]

---------------------------------------------------------------------------
(* C28 *)

\* C28: for reserves > 0, get_input_price(in, in_res, out_res) returns
\* floor((in * 997 * out_res) / (in_res * 1000 + in * 997)); for reserves > 0
\* and out < out_res, get_output_price(out, in_res, out_res) returns
\* floor((in_res * out * 1000) / ((out_res - out) * 997)) + 1, the + 1 being
\* added even when the division is exact.
PricingFormulas ==
    /\ (last.op = "get_input_price" /\ last.args[2] > 0 /\ last.args[3] > 0) =>
        last.res = (last.args[1] * 997 * last.args[3])
                        \div (last.args[2] * 1000 + last.args[1] * 997)
    /\ (last.op = "get_output_price" /\ last.args[2] > 0 /\ last.args[3] > 0
            /\ last.args[1] < last.args[3]) =>
        last.res = ((last.args[2] * last.args[1] * 1000)
                        \div ((last.args[3] - last.args[1]) * 997)) + 1

\* an exact-out price has been quoted where the division is exact and the
\* quotient is not zero
QuotedExactDivision ==
    /\ QuotedOutput
    /\ (last.args[2] * last.args[1] * 1000) % ((last.args[3] - last.args[1]) * 997) = 0
    /\ last.res * (last.args[3] - last.args[1]) * 997
            = last.args[2] * last.args[1] * 1000 + (last.args[3] - last.args[1]) * 997

---------------------------------------------------------------------------
(* C29 *)

\* C29: add_liquidity and remove_liquidity require the deadline to be
\* strictly greater than the current block number: with deadline equal to the
\* current block or earlier the call fails with Deadline and changes no
\* state, whatever the origin and the other arguments (the Deadline check
\* precedes all other validation); with a later deadline it does not fail
\* with Deadline.
LiquidityDeadlineStrict ==
    Dispatching =>
    \A origin \in Origins, exchange_id \in ExchangeIds, amount \in Amounts,
       lower \in Amounts, upper \in Amounts :
        /\ \A deadline \in {now - 1, now} :
            /\ add_liquidity(Storage, now, origin, exchange_id, amount, lower, upper, deadline)
                    = [s |-> Storage, res |-> "Deadline"]
            /\ remove_liquidity(Storage, now, origin, exchange_id, amount, lower, upper, deadline)
                    = [s |-> Storage, res |-> "Deadline"]
        /\ add_liquidity(Storage, now, origin, exchange_id, amount, lower, upper,
                         now + 1).res # "Deadline"
        /\ remove_liquidity(Storage, now, origin, exchange_id, amount, lower, upper,
                            now + 1).res # "Deadline"

\* a provision has been refused for its deadline, on an exchange where the
\* same provision with a later deadline succeeds
ProvisionedTooLate ==
    /\ last.op = "add_liquidity"
    /\ last.res = "Deadline"
    /\ Events = << >>
    /\ \E who \in Users, exchange_id \in DOMAIN Exchanges :
        /\ add_liquidity(Storage, now, Signed(who), exchange_id, 1, 1, 2, now).res = "Deadline"
        /\ add_liquidity(Storage, now, Signed(who), exchange_id, 1, 1, 2, now + 1).res = "Ok"

---------------------------------------------------------------------------
(* C30 *)

\* C30: every swap variant uses the inclusive deadline predicate: a call
\* with deadline equal to the current block number is not rejected with
\* Deadline, and a call is rejected with Deadline exactly when
\* deadline < current block number.
SwapDeadlineInclusive ==
    Dispatching =>
    \A origin \in Origins, exchange_id \in ExchangeIds, other_exchange_id \in ExchangeIds,
       amount \in Amounts, limit \in Amounts, recipient \in Users,
       deadline \in {now - 1, now, now + 1} :
        \A res \in
            {currency_to_tokens_input(Storage, now, overflow_checks, origin, exchange_id,
                                      amount, limit, deadline, recipient).res,
             currency_to_tokens_output(Storage, now, overflow_checks, origin, exchange_id,
                                       amount, limit, deadline, recipient).res,
             tokens_to_currency_input(Storage, now, overflow_checks, origin, exchange_id,
                                      amount, limit, deadline, recipient).res,
             tokens_to_currency_output(Storage, now, overflow_checks, origin, exchange_id,
                                       amount, limit, deadline, recipient).res,
             token_to_token_input(Storage, now, overflow_checks, origin, exchange_id,
                                  other_exchange_id, amount, limit, deadline, recipient).res,
             token_to_token_output(Storage, now, overflow_checks, origin, exchange_id,
                                   other_exchange_id, amount, limit, deadline, recipient).res} :
            res = "Deadline" <=> deadline < now

---------------------------------------------------------------------------
(* C31 *)

\* C31: a successful add_liquidity on an exchange with liquidity pulls
\* token_amount = ceil(currency_amount * TR / CR) tokens from the caller,
\* CR and TR being the reserves before the call: the quotient is rounded up
\* whenever currency_amount * TR is not a multiple of CR.
ProvisionPullsCeiling ==
    (last.op = "add_liquidity" /\ last.res = "Ok" /\ last.args[7] > 0) =>
        LET currency_amount == last.args[2]
            CR == last.args[5]
            TR == last.args[6]
        IN  last.args[3] = (currency_amount * TR + CR - 1) \div CR

---------------------------------------------------------------------------
(* C32 *)

\* a call has ended in a tagged error and has written nothing
RefusedUnchanged(r) == r.res \notin {"Ok", "Panic"} /\ r.s = Storage

\* C32: an exact-out swap whose output amount is greater than or equal to the
\* output reserve ends in a tagged error with all state unchanged, for
\* currency_to_tokens_output (tokens_bought >= token reserve),
\* tokens_to_currency_output (currency_bought >= currency reserve) and
\* token_to_token_output (other_tokens_bought >= token reserve of the second
\* exchange); it neither divides by zero nor succeeds.
ExactOutDomainEnforced ==
    Dispatching =>
    \A buyer \in Users, exchange_id \in DOMAIN Exchanges,
       other_exchange_id \in DOMAIN Exchanges, amount \in Amounts, limit \in Amounts,
       recipient \in Users :
        LET exchange == Exchanges[exchange_id]
            other_exchange == Exchanges[other_exchange_id]
            TR == Balances[<<exchange.token_id, exchange.account>>]
            CR == FreeBalance[exchange.account]
            other_TR == Balances[<<other_exchange.token_id, other_exchange.account>>]
        IN  /\ amount >= TR =>
                RefusedUnchanged(currency_to_tokens_output(Storage, now, overflow_checks,
                    Signed(buyer), exchange_id, amount, limit, now + 1, recipient))
            /\ amount >= CR =>
                RefusedUnchanged(tokens_to_currency_output(Storage, now, overflow_checks,
                    Signed(buyer), exchange_id, amount, limit, now + 1, recipient))
            /\ amount >= other_TR =>
                RefusedUnchanged(token_to_token_output(Storage, now, overflow_checks,
                    Signed(buyer), exchange_id, other_exchange_id, amount, limit,
                    now + 1, recipient))

---------------------------------------------------------------------------
(* C33 *)

\* C33: pricing and liquidity arithmetic never wraps: for reserves and
\* amounts of the token balance type, get_input_price (reserves > 0),
\* get_output_price (reserves > 0, output below the output reserve) and the
\* token amount of add_liquidity (currency reserve > 0) return the exact
\* mathematical result whenever they return a value, the intermediate
\* products being computed without reduction modulo 2^w, and they do not
\* panic.
ArithmeticNeverWraps ==
    /\ (last.op = "get_input_price" /\ last.args[2] > 0 /\ last.args[3] > 0) =>
        /\ last.res = "Ok"
        /\ last.args[4] = (last.args[1] * 997 * last.args[3])
                            \div (last.args[2] * 1000 + last.args[1] * 997)
    /\ (last.op = "get_output_price" /\ last.args[2] > 0 /\ last.args[3] > 0
            /\ last.args[1] < last.args[3]) =>
        /\ last.res = "Ok"
        /\ last.args[4] = ((last.args[2] * last.args[1] * 1000)
                            \div ((last.args[3] - last.args[1]) * 997)) + 1
    /\ (last.op = "token_amount" /\ last.args[3] > 0) =>
        /\ last.res = "Ok"
        /\ last.args[4] = (last.args[1] * last.args[2]) \div last.args[3]

---------------------------------------------------------------------------
(* C34 *)

\* C34: asset identifiers are never recycled: over any sequence of issue and
\* create_exchange calls, with next_asset_id a counter of a bounded type, no
\* call writes the asset_info, the total supply or a balance of an asset that
\* had been assigned before the call; at the counter's greatest value the
\* call fails instead of wrapping.
AssetIdsNeverRecycled ==
    [][\A id \in DOMAIN AssetInfos :
        /\ AssetInfos'[id] = AssetInfos[id]
        /\ TotalSupply'[id] = TotalSupply[id]
        /\ \A a \in Accounts : Balances'[<<id, a>>] = Balances[<<id, a>>]]_vars

---------------------------------------------------------------------------
(* C35 *)

\* C35: transfer by a caller to itself of an amount with
\* 0 < amount <= balances[(id, caller)] succeeds, leaves every balance and
\* every total supply unchanged and emits Transferred(id, caller, caller,
\* amount); with amount > balances[(id, caller)] it fails with BalanceLow and
\* writes nothing.
SelfTransfer ==
    Dispatching =>
    \A caller \in Users, id \in AssetIds, amount \in 1 .. (IssueTotal + 1) :
        LET r == transfer(Storage, Signed(caller), id, caller, amount)
        IN  IF amount <= Balances[<<id, caller>>]
            THEN /\ r.res = "Ok"
                 /\ r.s = [Storage EXCEPT
                            !.Events = <<<<"Transferred", id, caller, caller, amount>>>>]
            ELSE r = [s |-> Storage, res |-> "BalanceLow"]

\* a holder has transferred to itself
TransferredToSelf ==
    /\ last.op = "transfer"
    /\ last.res = "Ok"
    /\ last.args[1] = Signed(last.args[3])
    /\ last.args[4] > 0
    /\ Balances[<<last.args[2], last.args[3]>>] >= last.args[4]
    /\ Events = <<<<"Transferred", last.args[2], last.args[3], last.args[3], last.args[4]>>>>

---------------------------------------------------------------------------
(* C36 *)

\* the liquidity supply of exchange p in storage record s
LiquiditySupply(s, p) == s.TotalSupply[Exchanges[p].liquidity_id]

\* no exchange's liquidity supply differs between the state and record s
LiquiditySupplyKept(s) ==
    \A p \in DOMAIN Exchanges : LiquiditySupply(s, p) = LiquiditySupply(Storage, p)

\* C36: each exchange has its own liquidity asset: distinct exchanges have
\* distinct liquidity ids, the id a create_exchange assigns is the id of no
\* asset assigned before, and the id an issue assigns is no exchange's
\* liquidity id.  The supply of a liquidity asset changes only through
\* add_liquidity, which does not lower it and raises it when it succeeds, and
\* remove_liquidity, which does not raise it and lowers it when it succeeds,
\* on the owning exchange: issue, transfer, allow, transfer_from,
\* create_exchange, the six swaps and the liquidity operations on other
\* exchanges leave it unchanged, whether they succeed or fail.
LiquidityAssetOwned ==
    Dispatching =>
    /\ \A p \in DOMAIN Exchanges, q \in DOMAIN Exchanges :
        p # q => Exchanges[p].liquidity_id # Exchanges[q].liquidity_id
    /\ \A p \in DOMAIN Exchanges : Exchanges[p].liquidity_id < NextAssetId
    /\ \A origin \in Origins, id \in AssetIds :
        LET r == create_exchange(Storage, origin, id)
        IN  /\ LiquiditySupplyKept(r.s)
            /\ r.res = "Ok" =>
                r.s.Exchanges[NextExchangeId].liquidity_id \notin DOMAIN AssetInfos
    /\ \A origin \in Origins, total \in IssueTotals :
        LiquiditySupplyKept(issue(Storage, origin, total, TEST_TOKEN).s)
    /\ \A origin \in Origins, id \in AssetIds, a \in Accounts, amount \in Amounts :
        /\ LiquiditySupplyKept(transfer(Storage, origin, id, a, amount).s)
        /\ LiquiditySupplyKept(allow(Storage, origin, id, a, amount).s)
        /\ \A b \in Accounts :
            LiquiditySupplyKept(transfer_from(Storage, origin, id, a, b, amount).s)
    /\ \A origin \in Origins, e \in ExchangeIds, other \in ExchangeIds,
          amount \in Amounts, limit \in Amounts, recipient \in Users :
        /\ LiquiditySupplyKept(currency_to_tokens_input(Storage, now, overflow_checks,
                origin, e, amount, limit, now + 1, recipient).s)
        /\ LiquiditySupplyKept(currency_to_tokens_output(Storage, now, overflow_checks,
                origin, e, amount, limit, now + 1, recipient).s)
        /\ LiquiditySupplyKept(tokens_to_currency_input(Storage, now, overflow_checks,
                origin, e, amount, limit, now + 1, recipient).s)
        /\ LiquiditySupplyKept(tokens_to_currency_output(Storage, now, overflow_checks,
                origin, e, amount, limit, now + 1, recipient).s)
        /\ LiquiditySupplyKept(token_to_token_input(Storage, now, overflow_checks,
                origin, e, other, amount, limit, now + 1, recipient).s)
        /\ LiquiditySupplyKept(token_to_token_output(Storage, now, overflow_checks,
                origin, e, other, amount, limit, now + 1, recipient).s)
    /\ \A origin \in Origins, e \in ExchangeIds, amount \in Amounts, lower \in Amounts,
          upper \in Amounts :
        LET added == add_liquidity(Storage, now, origin, e, amount, lower, upper, now + 1)
            removed == remove_liquidity(Storage, now, origin, e, amount, lower, upper,
                                        now + 1)
        IN  \A p \in DOMAIN Exchanges :
                IF p = e
                THEN /\ LiquiditySupply(added.s, p) >= LiquiditySupply(Storage, p)
                     /\ added.res = "Ok" =>
                            LiquiditySupply(added.s, p) > LiquiditySupply(Storage, p)
                     /\ LiquiditySupply(removed.s, p) <= LiquiditySupply(Storage, p)
                     /\ removed.res = "Ok" =>
                            LiquiditySupply(removed.s, p) < LiquiditySupply(Storage, p)
                ELSE /\ LiquiditySupply(added.s, p) = LiquiditySupply(Storage, p)
                     /\ LiquiditySupply(removed.s, p) = LiquiditySupply(Storage, p)

\* shares of one of two exchanges have been removed, which left the supply
\* of the other's liquidity asset where it was
RemovedFromOneOfTwo ==
    /\ last.op = "remove_liquidity"
    /\ last.res = "Ok"
    /\ NextExchangeId = 2
    /\ Exchanges[0].liquidity_id # Exchanges[1].liquidity_id
    /\ TotalSupply[Exchanges[last.args[2]].liquidity_id] = 0
    /\ TotalSupply[Exchanges[1 - last.args[2]].liquidity_id] > 0

---------------------------------------------------------------------------
(* C37 *)

\* the allowances of storage record s are those of the state
AllowancesKept(s) == s.Allowances = Allowances

\* the allowances of storage record s are those of the state, except that
\* allowances given to the account of exchange e on its token may be lower
AllowancesSpent(s, e) ==
    \/ AllowancesKept(s)
    \/ \A k \in DOMAIN Allowances :
        /\ s.Allowances[k] <= Allowances[k]
        /\ s.Allowances[k] # Allowances[k] =>
            (e \in DOMAIN Exchanges /\ k[1] = Exchanges[e].token_id
                /\ k[3] = Exchanges[e].account)

\* C37: allowances change only by allow, which overwrites the caller's own
\* entry for the spender, and by delegated transfers, which lower the entry
\* (asset, owner, spender) they use: transfer_from, and the token pulls of
\* add_liquidity (on success by exactly the tokens the exchange receives) and
\* of the token-selling swaps.  issue, transfer, create_exchange,
\* remove_liquidity and the currency-to-token swaps leave every allowance
\* unchanged, and no operation other than allow raises an allowance.
AllowancesFrame ==
    Dispatching =>
    /\ \A origin \in Origins, total \in IssueTotals :
        AllowancesKept(issue(Storage, origin, total, TEST_TOKEN).s)
    /\ \A origin \in Origins, id \in AssetIds :
        AllowancesKept(create_exchange(Storage, origin, id).s)
    /\ \A origin \in Origins, id \in AssetIds, a \in Accounts, amount \in Amounts :
        /\ AllowancesKept(transfer(Storage, origin, id, a, amount).s)
        /\ LET r == allow(Storage, origin, id, a, amount)
           IN  IF r.res = "Ok"
               THEN r.s.Allowances = [Allowances EXCEPT ![<<id, origin[1], a>>] = amount]
               ELSE AllowancesKept(r.s)
        /\ \A b \in Accounts :
            LET r == transfer_from(Storage, origin, id, a, b, amount)
            IN  IF r.res = "Ok"
                THEN r.s.Allowances
                        = [Allowances EXCEPT ![<<id, a, origin[1]>>] = @ - amount]
                ELSE \/ AllowancesKept(r.s)
                     \/ /\ origin # RawNone
                        /\ r.s.Allowances
                            = [Allowances EXCEPT ![<<id, a, origin[1]>>] = @ - amount]
    /\ \A origin \in Origins, e \in ExchangeIds, amount \in Amounts, limit \in Amounts,
          recipient \in Users :
        /\ AllowancesKept(currency_to_tokens_input(Storage, now, overflow_checks,
                origin, e, amount, limit, now + 1, recipient).s)
        /\ AllowancesKept(currency_to_tokens_output(Storage, now, overflow_checks,
                origin, e, amount, limit, now + 1, recipient).s)
        /\ AllowancesSpent(tokens_to_currency_input(Storage, now, overflow_checks,
                origin, e, amount, limit, now + 1, recipient).s, e)
        /\ AllowancesSpent(tokens_to_currency_output(Storage, now, overflow_checks,
                origin, e, amount, limit, now + 1, recipient).s, e)
        /\ \A other \in ExchangeIds :
            /\ AllowancesSpent(token_to_token_input(Storage, now, overflow_checks,
                    origin, e, other, amount, limit, now + 1, recipient).s, e)
            /\ AllowancesSpent(token_to_token_output(Storage, now, overflow_checks,
                    origin, e, other, amount, limit, now + 1, recipient).s, e)
    /\ \A origin \in Origins, e \in ExchangeIds, amount \in Amounts, lower \in Amounts,
          upper \in Amounts :
        /\ AllowancesKept(remove_liquidity(Storage, now, origin, e, amount, lower, upper,
                                           now + 1).s)
        /\ LET r == add_liquidity(Storage, now, origin, e, amount, lower, upper, now + 1)
           IN  IF r.res = "Ok"
               THEN LET token == Exchanges[e].token_id
                        account == Exchanges[e].account
                    IN  r.s.Allowances =
                            [Allowances EXCEPT ![<<token, origin[1], account>>] =
                                @ - (r.s.Balances[<<token, account>>]
                                        - Balances[<<token, account>>])]
               ELSE AllowancesSpent(r.s, e)

\* a provision has used up the allowance its caller had given the exchange
\* account: the exchange holds every token issued
ProvisionSpentAllowance ==
    /\ last.op = "add_liquidity"
    /\ last.res = "Ok"
    /\ LET exchange == Exchanges[last.args[2]]
           who == last.args[1][1]
       IN  /\ Allowances[<<exchange.token_id, who, exchange.account>>] = 0
           /\ Balances[<<exchange.token_id, exchange.account>>] = IssueTotal

---------------------------------------------------------------------------
(* C38 *)

\* C38: an exact-out quote is sufficient: for reserves a > 0, b > 0 and
\* every x with 0 < x < b, the amount get_output_price(x, a, b) supplied as
\* an exact input buys at least x:
\* get_input_price(get_output_price(x, a, b), a, b) >= x.
ExactOutQuoteSuffices ==
    \A x \in 1 .. MaxReserve, a \in Reserves \ {0}, b \in Reserves \ {0} :
        (last.op = "get_output_price" /\ last.args = <<x, a, b>> /\ x < b) =>
            /\ last.res = get_output_price(x, a, b)
            /\ get_input_price(last.res, a, b) >= x

\* the price quoted for an exact output buys exactly that output, and one
\* unit less of input buys less
QuoteBuysExactly ==
    /\ QuotedOutput
    /\ get_input_price(last.res, last.args[2], last.args[3]) = last.args[1]
    /\ get_input_price(last.res - 1, last.args[2], last.args[3]) < last.args[1]

---------------------------------------------------------------------------
(* C39 *)

\* C39: a successful add_liquidity on an exchange with liquidity does not
\* dilute the shares that existed: with CR, TR the reserves and L the
\* liquidity supply before the call and CR', TR', L' after it,
\* CR' * L >= CR * L' and TR' * L >= TR * L'.
ProvisionNeverDilutes ==
    (last.op = "add_liquidity" /\ last.res = "Ok" /\ last.args[7] > 0) =>
        LET exchange == Exchanges[0]
            CR == last.args[5]
            TR == last.args[6]
            L == last.args[7]
        IN  /\ FreeBalance[exchange.account] * L
                >= CR * TotalSupply[exchange.liquidity_id]
            /\ Balances[<<exchange.token_id, exchange.account>>] * L
                >= TR * TotalSupply[exchange.liquidity_id]

====
